---------------------------- MODULE Spec2Model ----------------------------
(***************************************************************************)
(* A model of fxfsp, a forward-only scanner of XFS images.                 *)
(*                                                                         *)
(* Spec        the callback scan: scan_reader -> run_scan_inner -> scan_ag *)
(*             (src/src/lib.rs, src/src/scan.rs).                          *)
(* SpecStaged  the phased API: parse_superblock, FsScanner::next_ag and    *)
(*             the phase methods of AgScanner, AgExtentPhase, AgDirPhase   *)
(*             (src/src/staged.rs), called by a caller who is free in      *)
(*             every choice the types leave open.                          *)
(* SpecBatch   one batch read: the default IoReader::coalesced_read_batch  *)
(*             (src/src/reader.rs) or IoEngine::read_batch on io_uring     *)
(*             (src/src/io/engine.rs), with a handler that may fail.       *)
(*                                                                         *)
(* The filesystem image is not a variable: what a read returns is chosen   *)
(* when the program reads it (an inobt with n records, a slot that holds a *)
(* free inode, a regular file, a directory of some fork format, a damaged  *)
(* structure, a failed read), so every image within the bounds is covered. *)
(* The callback is the caller's code: each invocation returns Continue or  *)
(* Break, chosen freely.  `events` is the history of callback invocations. *)
(***************************************************************************)
EXTENDS Integers, Sequences, FiniteSets, TLC

\* ------------------------------------------------------------------------
\* Bounds of the model
\* ------------------------------------------------------------------------

\* Allocation groups of an image (sb_agcount).
MaxAg == 2

\* Inobt records (inode chunks) of one allocation group.
MaxChunks == 2

\* Slots of one inode chunk that the model walks (the source walks 64).
ChunkSlots == 2

\* Allocated inodes of one image.
MaxInodes == 2

\* On-disk entries of one shortform directory (the header's count).
MaxSfEntries == 1

\* Extents of one directory.
MaxExtents == 1

\* Used entries in the directory blocks of one image.
MaxEntries == 2

VARIABLES
    pc,            \* where the running operation stands
    result,        \* what the operation returned to its caller ("none": running)
    events,        \* callback invocations so far, each with what the callback returned
    ag_count,      \* ctx.ag_count
    agno,          \* the allocation group being scanned
    pending,       \* inode-chunk requests of the batch not yet completed (record indexes)
    rec_idx,       \* chunks[idx].rec_idx of the chunk being processed
    slot,          \* i of process_inode_chunk's loop
    sf,            \* the shortform directory being decoded: [next, count]
    dir_work,      \* Vec<DirWorkItem>: [extents]
    btree_dirs,    \* Vec<BtreeDirItem>: the saved forks
    dir_pending,   \* directory-extent requests of the batch not yet completed
    blk,           \* the directory buffer being decoded: [left]
    current_ag,    \* FsScanner.current_ag
    phase,         \* the phase object the caller holds ("none": only the FsScanner)
    shortform_dirs,\* Vec<ShortformDirItem>: the saved forks, as entry counts
    btree_files,   \* Vec<BtreeItem> of the btree-format regular files
    stopped,       \* the `stopped` flag of the running phase
    op,            \* the API call that is running or returned last
    calls,         \* the phase methods called for the group handed out last
    handed,        \* the groups next_ag has handed out, in order
    dirs_missed,   \* btree directories with extents left unqueued by the scan_file_extents that returned last
    raised,        \* the failure a reader or decoder raised during `op` ("none")
    impl,          \* the batch reader that runs: "default" or "uring"
    n_req,         \* requests.len()
    next_req,      \* requests taken from the slice so far
    in_flight,     \* read_batch's count of reads in flight
    free_slots,    \* read_batch's stack of free pool slots
    slot_tags,     \* slot -> the tag of the read that uses it, or "None"
    slot_req,      \* slot -> the request whose read used it last
    flying,        \* the slots the kernel is reading into
    in_callback,   \* the slot and tag on_complete is running on
    completed,     \* on_complete invocations so far: request, tag, result
    rd_via,        \* how the single read is made: "read_at" or "read_batch"
    rd_offset,     \* its byte offset
    rd_len,        \* its requested length
    rd_clamped,    \* clamped / slot_lens[slot]: the bytes asked of the kernel
    rd_total,      \* the bytes the kernel has read for it
    rd_delivered,  \* the length of the buffer handed over (-1: none)
    tw_image,      \* the image scanned twice: inode -> kind
    tw_reader,     \* the reader of both scans: "default" or "uring"
    tw_run,        \* the scan that runs: 1 or 2
    tw_left,       \* what the running batch or map still holds
    tw_events,     \* scan -> the events it has delivered
    tr_ag,         \* agno of the scan with inode numbers
    tr_slot,       \* the inode of the group that comes next
    tr_work,       \* the directories queued in dir_work
    tr_dir,        \* the directory being decoded (0: none)
    tr_entry,      \* the entry of it that comes next
    tr_found,      \* the inodes InodeFound has reported
    tr_named,      \* the children that named entries have named
    tr_ahead,      \* an entry named an inode not yet reported
    tr_last,       \* the event delivered last
    sw_log,        \* ctx.dir_blk_log of the swept directory's filesystem
    sw_count,      \* the directory blocks of the directory
    sw_cuts,       \* the logical blocks at which a new extent starts
    sw_pos,        \* the logical block at which the next extent starts
    sw_emitted,    \* the directory blocks whose entry was delivered, in order
    g_op,          \* the computation the drawn inputs are for
    g_ctx,         \* the FsContext drawn
    g_in,          \* the arguments drawn
    g_out,         \* what the computation returned
    fx_slot,       \* the inode of the group that process_inode_chunk_staged is at
    fx_inode,      \* the on-disk inode it parsed last
    fx_event,      \* the InodeInfo or FileExtentsInfo handed to a callback last
    fx_btree_files,\* btree_files, by inode number
    fx_btree_dirs, \* btree_dirs, by inode number
    fx_results,    \* the keys of bmbt_results
    fx_left,       \* the entries of bmbt_results the loop has not taken yet
    fx_reported,   \* the inodes of the FileExtentsInfo events, in order
    d_op,          \* the decoder the drawn input is for
    d_in,          \* the drawn input
    d_out,         \* what the decoder returned
    bm_ino,        \* dirs parsed so far by the loop over the inline roots
    bm_rootmax,    \* the largest level of a root parsed so far
    bm_pending,    \* pending: [fsblock, expected_level] of the blocks to read
    bm_next,       \* next_pending of the running batch
    bm_batches,    \* calls of coalesced_read_batch so far
    bm_trunc,      \* a record or pointer list was cut at the end of its buffer
    bm_again,      \* a block that was read names itself as its child
    bf_image,      \* what the inodes of the image hold, as far as they were read
    bf_level,      \* current_level, then the inodes of the level not yet handled
    bf_next,       \* child_dir_inos
    bf_dir_work,   \* dir_work of the level
    bf_found,      \* the inodes an InodeFound was emitted for
    bf_twice       \* an InodeFound was emitted for an inode that had one

scanVars == <<pc, result, events, ag_count, agno, pending, rec_idx, slot, sf,
              dir_work, btree_dirs, dir_pending, blk>>

\* What the phased API keeps besides.
stagedOnly == <<current_ag, phase, shortform_dirs, btree_files, stopped, op,
                calls, handed, dirs_missed, raised>>

\* What a batch read keeps.
batchOnly == <<impl, n_req, next_req, in_flight, free_slots, slot_tags, slot_req,
               flying, in_callback, completed>>

\* What the address arithmetic keeps.
geomOnly == <<g_op, g_ctx, g_in, g_out>>

\* What the sweep of one directory keeps.
sweepOnly == <<sw_log, sw_count, sw_cuts, sw_pos, sw_emitted>>

\* What the scan with inode numbers keeps.
treeOnly == <<tr_ag, tr_slot, tr_work, tr_dir, tr_entry, tr_found, tr_named,
              tr_ahead, tr_last>>

\* What two scans of one image keep.
twiceOnly == <<tw_image, tw_reader, tw_run, tw_left, tw_events>>

\* What a single read keeps.
readOnly == <<rd_via, rd_offset, rd_len, rd_clamped, rd_total, rd_delivered>>

\* What the extents handed to the callbacks keep.
extentsOnly == <<fx_slot, fx_inode, fx_event, fx_btree_files, fx_btree_dirs, fx_results, fx_left, fx_reported>>

\* What the run of one decoder keeps.
decodeOnly == <<d_op, d_in, d_out>>

\* What the walk of the bmap B-trees keeps.
bmbtOnly == <<bm_ino, bm_rootmax, bm_pending, bm_next, bm_batches, bm_trunc, bm_again>>

\* The scan along the directory tree.
bfsOnly == <<bf_image, bf_level, bf_next, bf_dir_work, bf_found, bf_twice>>

\* What the callback scan, the phased API, a batch read and a single read
\* leave alone.
outsideScan == <<stagedOnly, batchOnly, readOnly, twiceOnly, treeOnly, sweepOnly,
                 geomOnly,
                 extentsOnly,
                 decodeOnly,
                 bmbtOnly,
                 bfsOnly>>
outsideStaged == <<batchOnly, readOnly, twiceOnly, treeOnly, sweepOnly,
                   geomOnly,
                   extentsOnly,
                   decodeOnly,
                   bmbtOnly,
                   bfsOnly>>
outsideRead == <<events, ag_count, agno, pending, rec_idx, slot, sf, dir_work,
                 btree_dirs, dir_pending, blk, stagedOnly, batchOnly, twiceOnly, treeOnly,
                 sweepOnly,
                 geomOnly,
                 extentsOnly,
                 decodeOnly,
                 bmbtOnly,
                 bfsOnly>>
outsideTwice == <<events, ag_count, agno, pending, rec_idx, slot, sf, dir_work,
                  btree_dirs, dir_pending, blk, stagedOnly, batchOnly, readOnly,
                  treeOnly, sweepOnly,
                  geomOnly,
                  extentsOnly,
                  decodeOnly,
                  bmbtOnly,
                  bfsOnly>>
outsideTree == <<events, ag_count, agno, pending, rec_idx, slot, sf, dir_work,
                 btree_dirs, dir_pending, blk, stagedOnly, batchOnly, readOnly,
                 twiceOnly, sweepOnly,
                 geomOnly,
                 extentsOnly,
                 decodeOnly,
                 bmbtOnly,
                 bfsOnly>>
outsideSweep == <<events, ag_count, agno, pending, rec_idx, slot, sf, dir_work,
                  btree_dirs, dir_pending, blk, stagedOnly, batchOnly, readOnly,
                  twiceOnly, treeOnly,
                  geomOnly,
                  extentsOnly,
                  decodeOnly,
                  bmbtOnly,
                  bfsOnly>>
outsideGeom == <<events, ag_count, agno, pending, rec_idx, slot, sf, dir_work,
                 btree_dirs, dir_pending, blk, stagedOnly, batchOnly, readOnly,
                 twiceOnly, treeOnly, sweepOnly,
                 extentsOnly,
                 decodeOnly,
                 bmbtOnly,
                 bfsOnly>>
outsideBatch == <<readOnly, twiceOnly, treeOnly, sweepOnly, events, ag_count, agno, pending, rec_idx, slot, sf, dir_work,
                  btree_dirs, dir_pending, blk, current_ag, phase, shortform_dirs,
                  btree_files, stopped, op, calls, handed, dirs_missed,
                  geomOnly,
                  extentsOnly,
                  decodeOnly,
                  bmbtOnly,
                  bfsOnly>>
outsideExtents == <<events, ag_count, agno, pending, rec_idx, slot, sf, dir_work,
                 btree_dirs, dir_pending, blk, stagedOnly, batchOnly, readOnly,
                 twiceOnly, treeOnly, sweepOnly, geomOnly,
                    decodeOnly,
                    bmbtOnly,
                    bfsOnly>>
outsideDecode == <<events, ag_count, agno, pending, rec_idx, slot, sf, dir_work,
                 btree_dirs, dir_pending, blk, stagedOnly, batchOnly, readOnly,
                 twiceOnly, treeOnly, sweepOnly,
                 extentsOnly, geomOnly,
                   bmbtOnly,
                   bfsOnly>>
outsideBmbt == <<events, ag_count, agno, pending, rec_idx, slot, sf, dir_work,
                 btree_dirs, dir_pending, blk, stagedOnly, batchOnly, readOnly,
                 twiceOnly, treeOnly, sweepOnly,
                 extentsOnly,
                 decodeOnly, geomOnly,
                 bfsOnly>>
outsideBfs == <<events, ag_count, agno, pending, rec_idx, slot, sf, dir_work,
                 btree_dirs, dir_pending, blk, stagedOnly, batchOnly, readOnly,
                 twiceOnly, treeOnly, sweepOnly,
                 extentsOnly,
                 decodeOnly,
                 bmbtOnly, geomOnly>>

vars == <<scanVars, stagedOnly, batchOnly, readOnly, twiceOnly, treeOnly, sweepOnly,
         geomOnly,
          extentsOnly,
          decodeOnly,
          bmbtOnly,
          bfsOnly>>

\* ------------------------------------------------------------------------
\* Values
\* ------------------------------------------------------------------------

ControlFlow == {"Continue", "Break"}

\* FxfspError (src/src/error.rs); "Ok" is Ok(()).
Errors == {"Io", "BadMagic", "Parse"}

NoSf == [next |-> 0, count |-> 0]
NoBlk == [left |-> 0]
NoCallback == [slot |-> -1, tag |-> "None"]

\* One callback invocation: the event's variant, the code that emitted it,
\* the allocation group being scanned (InodeFound carries it as ag_number),
\* and what the callback returned.
Event(kind, from, a, ret) ==
    [kind |-> kind, from |-> from, ag |-> a, ret |-> ret]

NumInodes == Cardinality({k \in 1..Len(events) : events[k].from = "chunk"})

NumBlockEntries == Cardinality({k \in 1..Len(events) : events[k].from = "block"})

\* ------------------------------------------------------------------------
\* src/src/scan.rs, src/src/lib.rs
\* ------------------------------------------------------------------------

\* emit: the callback's Break becomes Err(Stopped).
emit(ret) == IF ret = "Continue" THEN "Ok" ELSE "Stopped"

\* A scan_reader that hands run_scan_inner's result on as it is.
scan_reader_passthrough(inner) == inner

\* scan_reader: Err(Stopped) of run_scan_inner becomes Ok(()).
scan_reader(inner) == IF inner = "Stopped" THEN "Ok" ELSE inner

\* The locals of scan_ag and of the callbacks it runs.
locals == <<pending, rec_idx, slot, sf, dir_work, btree_dirs, dir_pending, blk>>

\* scan_ag is left: its locals are dropped.
DropLocals ==
    /\ pending' = {}
    /\ rec_idx' = 0
    /\ slot' = 0
    /\ sf' = NoSf
    /\ dir_work' = <<>>
    /\ btree_dirs' = <<>>
    /\ dir_pending' = {}
    /\ blk' = NoBlk

\* run_scan_inner returns `inner` (an error short-circuited by `?`, or the
\* final Ok(())) and scan_reader hands its conversion to the caller.
Return(inner) ==
    /\ pc' = "done"
    /\ result' = scan_reader(inner)
    /\ agno' = agno
    /\ DropLocals
    /\ UNCHANGED outsideScan

\* A loop over the allocation groups that starts over at group 0 after the
\* last one.
NextAgWrapping ==
    /\ pc' = "agi"
    /\ agno' = (agno + 1) % ag_count
    /\ result' = result
    /\ DropLocals
    /\ UNCHANGED outsideScan

\* scan_ag returned Ok: the `for agno in 0..ctx.ag_count` loop goes on.
NextAg ==
    IF agno + 1 < ag_count
    THEN /\ pc' = "agi"
         /\ agno' = agno + 1
         /\ result' = result
         /\ DropLocals
         /\ UNCHANGED outsideScan
    ELSE Return("Ok")

\* The operation goes on at `to` inside the same allocation group.
Goto(to) ==
    /\ pc' = to
    /\ UNCHANGED <<result, agno>>
    /\ UNCHANGED outsideScan

\* The inode-chunk batch returned Ok, or goes on with the next completion.
AfterChunk(left) == IF left = {} THEN "bmbt" ELSE "chunks"

\* Nothing has been read and no callback has run.
Fresh ==
    /\ result = "none"
    /\ events = <<>>
    /\ ag_count = 0
    /\ agno = 0
    /\ pending = {}
    /\ rec_idx = 0
    /\ slot = 0
    /\ sf = NoSf
    /\ dir_work = <<>>
    /\ btree_dirs = <<>>
    /\ dir_pending = {}
    /\ blk = NoBlk
    /\ current_ag = 0
    /\ phase = "none"
    /\ shortform_dirs = <<>>
    /\ btree_files = <<>>
    /\ stopped = FALSE
    /\ op = "none"
    /\ calls = <<>>
    /\ handed = <<>>
    /\ dirs_missed = 0
    /\ raised = "none"
    /\ impl = "none"
    /\ n_req = 0
    /\ next_req = 0
    /\ in_flight = 0
    /\ free_slots = <<>>
    /\ slot_tags = <<>>
    /\ slot_req = <<>>
    /\ flying = {}
    /\ in_callback = NoCallback
    /\ completed = <<>>
    /\ rd_via = "none"
    /\ rd_offset = 0
    /\ rd_len = 0
    /\ rd_clamped = 0
    /\ rd_total = 0
    /\ rd_delivered = -1
    /\ tw_image = <<>>
    /\ tw_reader = "none"
    /\ tw_run = 0
    /\ tw_left = {}
    /\ tw_events = <<(<<>>), (<<>>)>>
    /\ tr_ag = 0
    /\ tr_slot = 0
    /\ tr_work = {}
    /\ tr_dir = 0
    /\ tr_entry = 0
    /\ tr_found = {}
    /\ tr_named = {}
    /\ tr_ahead = FALSE
    /\ tr_last = [kind |-> "none", ino |-> 0, name |-> ""]
    /\ sw_log = 0
    /\ sw_count = 0
    /\ sw_cuts = {}
    /\ sw_pos = 0
    /\ sw_emitted = <<>>
    /\ g_op = "none"
    /\ g_ctx = [inop_blog |-> 0, ag_blk_log |-> 0, ag_blocks |-> 1, block_log |-> 0]
    /\ g_in = <<>>
    /\ g_out = <<>>
    /\ fx_slot = 0
    /\ fx_inode = [mode |-> "none", format |-> "none", nextents |-> 0, recs |-> <<>>]
    /\ fx_event = [kind |-> "none", ino |-> 0, extents |-> [some |-> FALSE, list |-> <<>>]]
    /\ fx_btree_files = {}
    /\ fx_btree_dirs = {}
    /\ fx_results = {}
    /\ fx_left = {}
    /\ fx_reported = <<>>
    /\ d_op = "none"
    /\ d_in = <<>>
    /\ d_out = <<>>
    /\ bm_ino = 0
    /\ bm_rootmax = 0
    /\ bm_pending = <<>>
    /\ bm_next = <<>>
    /\ bm_batches = 0
    /\ bm_trunc = FALSE
    /\ bm_again = FALSE
    /\ bf_image = <<>>
    /\ bf_level = <<>>
    /\ bf_next = <<>>
    /\ bf_dir_work = <<>>
    /\ bf_found = {}
    /\ bf_twice = FALSE

Init ==
    /\ pc = "start"
    /\ Fresh

\* A run_scan_inner that emits no Superblock event.
ReadSuperblockSilent ==
    /\ pc = "start"
    /\ events' = events
    /\ \E out \in {"Ok"} \cup Errors :
        IF out # "Ok"
        THEN Return(out) /\ ag_count' = ag_count
        ELSE \E n \in 0..MaxAg :
             /\ ag_count' = n
             /\ IF n = 0 THEN Return("Ok")
                ELSE Goto("agi") /\ UNCHANGED locals

\* run_scan_inner, to the first scan_ag: read and decode the superblock, emit
\* the Superblock event.
ReadSuperblock ==
    /\ pc = "start"
    /\ \E out \in {"Ok"} \cup Errors :
        IF out # "Ok"
        THEN /\ Return(out)
             /\ UNCHANGED <<events, ag_count>>
        ELSE \E n \in 0..MaxAg, ret \in ControlFlow :
             /\ events' = Append(events, Event("Superblock", "sb", 0, ret))
             /\ ag_count' = n
             /\ IF emit(ret) # "Ok" THEN Return(emit(ret))
                ELSE IF n = 0 THEN Return("Ok")
                ELSE Goto("agi") /\ UNCHANGED locals

\* scan_ag: read the AGI header and validate it.
ReadAgi ==
    /\ pc = "agi"
    /\ \E out \in {"Ok"} \cup Errors :
        IF out # "Ok"
        THEN Return(out)
        ELSE Goto("inobt") /\ UNCHANGED locals
    /\ UNCHANGED <<events, ag_count>>

\* scan_ag, phases 1a to 1c: walk the inobt, sort the records, build one
\* request per chunk and start the batch.
CollectInobt ==
    /\ pc = "inobt"
    /\ \E out \in {"Ok"} \cup Errors :
        IF out # "Ok"
        THEN Return(out)
        ELSE \E n \in 0..MaxChunks :
             /\ pending' = 1..n
             /\ Goto(AfterChunk(1..n))
             /\ UNCHANGED <<rec_idx, slot, sf, dir_work, btree_dirs, dir_pending, blk>>
    /\ UNCHANGED <<events, ag_count>>

\* coalesced_read_batch of the inode chunks: one request completes (the
\* reader may complete them in any order) and process_inode_chunk starts on
\* its buffer; a failed read ends the batch.
ChunkComplete ==
    /\ pc = "chunks"
    /\ \E idx \in pending, out \in {"Ok", "Io"} :
        IF out # "Ok"
        THEN Return(out)
        ELSE /\ pending' = pending \ {idx}
             /\ rec_idx' = idx
             /\ slot' = 0
             /\ Goto("slot")
             /\ UNCHANGED <<sf, dir_work, btree_dirs, dir_pending, blk>>
    /\ UNCHANGED <<events, ag_count>>

\* An extent as the sweeps see it: readable (block_count > 0, written),
\* unwritten, or of block count 0.
ExtentKinds == {"data", "unwritten", "empty"}

ExtentLists == UNION {[1..n -> ExtentKinds] : n \in 0..MaxExtents}

\* What slot i of a chunk may hold.
SlotContents ==
    {"free", "short", "damaged"} \cup
    (IF NumInodes < MaxInodes
     THEN {"file", "dir_local", "dir_extents", "dir_btree", "dir_dev"}
     ELSE {})

\* process_inode_chunk returns Ok: the batch goes on.
ChunkDone ==
    /\ slot' = 0
    /\ rec_idx' = 0
    /\ Goto(AfterChunk(pending))

\* The loop of process_inode_chunk goes to slot i + 1, or the chunk is done.
NextSlot ==
    IF slot + 1 < ChunkSlots
    THEN /\ slot' = slot + 1
         /\ rec_idx' = rec_idx
         /\ Goto("slot")
    ELSE ChunkDone

\* One iteration of process_inode_chunk's loop, with handle_directory up to
\* its first callback.
ProcessSlot ==
    /\ pc = "slot"
    /\ UNCHANGED ag_count
    /\ \E c \in SlotContents :
        CASE c = "free" ->
               \* a hole or a free inode: continue
               /\ NextSlot
               /\ UNCHANGED <<events, pending, sf, dir_work, btree_dirs, dir_pending, blk>>
          [] c = "short" ->
               \* the buffer ends before this inode: break
               /\ ChunkDone
               /\ UNCHANGED <<events, pending, sf, dir_work, btree_dirs, dir_pending, blk>>
          [] c = "damaged" ->
               \* parse_inode_core fails
               /\ \E e \in {"BadMagic", "Parse"} : Return(e)
               /\ UNCHANGED events
          [] OTHER ->
               \E ret \in ControlFlow :
               /\ events' = Append(events, Event("InodeFound", "chunk", agno, ret))
               /\ IF emit(ret) # "Ok"
                  THEN Return(emit(ret))
                  ELSE
                  CASE c = "dir_local" ->
                         \* the fork is out of bounds or too small for a header,
                         \* or parse_shortform_dir starts
                         \/ Return("Parse")
                         \/ /\ \E n \in 0..MaxSfEntries :
                                 sf' = [next |-> 0, count |-> n]
                            /\ Goto("shortform")
                            /\ UNCHANGED <<pending, rec_idx, slot, dir_work, btree_dirs,
                                           dir_pending, blk>>
                    [] c = "dir_extents" ->
                         \* parse_extent_list fails, or the item is queued
                         \/ Return("Parse")
                         \/ /\ \E xs \in ExtentLists :
                                 dir_work' = Append(dir_work, [extents |-> xs])
                            /\ NextSlot
                            /\ UNCHANGED <<pending, sf, btree_dirs, dir_pending, blk>>
                    [] c = "dir_btree" ->
                         /\ btree_dirs' = Append(btree_dirs, "fork")
                         /\ NextSlot
                         /\ UNCHANGED <<pending, sf, dir_work, dir_pending, blk>>
                    [] OTHER ->
                         /\ NextSlot
                         /\ UNCHANGED <<pending, sf, dir_work, btree_dirs, dir_pending, blk>>

\* The decoders parse_shortform_dir and parse_dir_data_block that scan.rs
\* calls take the ControlFlow callback; the callback's Break leaves them as
\* Err(Stopped), which the callers' `?` hands on.
dir_emit(ret) == IF ret = "Continue" THEN "Ok" ELSE "Stopped"

\* parse_shortform_dir, called by handle_directory inside the inode-chunk
\* callback: one callback invocation.  Entry 0 is ".", entry 1 is "..", the
\* rest are the on-disk entries, each bounds-checked before it is emitted.
EmitShortform ==
    /\ pc = "shortform"
    /\ UNCHANGED ag_count
    /\ \/ /\ sf.next >= 2
          /\ Return("Parse")
          /\ UNCHANGED events
       \/ \E ret \in ControlFlow :
          /\ events' = Append(events, Event("DirEntry", "shortform", agno, ret))
          /\ IF dir_emit(ret) # "Ok"
             THEN Return(dir_emit(ret))
             ELSE IF sf.next + 1 < 2 + sf.count
             THEN /\ sf' = [sf EXCEPT !.next = @ + 1]
                  /\ Goto("shortform")
                  /\ UNCHANGED <<pending, rec_idx, slot, dir_work, btree_dirs,
                                 dir_pending, blk>>
             ELSE /\ sf' = NoSf
                  /\ NextSlot
                  /\ UNCHANGED <<pending, dir_work, btree_dirs, dir_pending, blk>>

\* The sequences that hold each element of the finite set S once.
Perms(S) ==
    {p \in [1..Cardinality(S) -> S] : \A x \in S : \E k \in DOMAIN p : p[k] = x}

\* One request per extent of the queued directories, whatever its kind.
DirRequestsOfEveryExtent(work) ==
    UNION {{[item |-> w, ext |-> k] : k \in DOMAIN work[w].extents} :
           w \in DOMAIN work}

\* phase2_dir_sweep: one request per extent with block_count > 0 that is not
\* unwritten; a request is named by its directory's place in dir_work and the
\* extent's place in that directory's list.
DirRequests(work) ==
    UNION {{[item |-> w, ext |-> k] :
                k \in {j \in DOMAIN work[w].extents : work[w].extents[j] = "data"}} :
           w \in DOMAIN work}

\* collect_all_bmbt_extents on the saved forks, when it returns Ok: the
\* extents that the leaves of each fork's bmbt may hold.  The blocks of a
\* bmbt are read here for the first time.
BmbtExtents(forks) == [DOMAIN forks -> ExtentLists]

\* scan_ag, phase 1.5 and the start of phase 2: walk the bmbt of the queued
\* btree-format directories, queue those with extents in the order the
\* result map yields them, build the directory requests and start the batch.
BmbtWalk ==
    /\ pc = "bmbt"
    /\ UNCHANGED <<events, ag_count>>
    /\ \E out \in {"Ok"} \cup Errors :
        IF btree_dirs # <<>> /\ out # "Ok"
        THEN Return(out)
        ELSE \E found \in BmbtExtents(btree_dirs) :
             \E order \in Perms({d \in DOMAIN btree_dirs : found[d] # <<>>}) :
             LET work == dir_work \o
                         [k \in DOMAIN order |->
                             [extents |-> found[order[k]]]]
                 reqs == IF work = <<>> THEN {} ELSE DirRequests(work)
             IN IF reqs = {}
                THEN NextAg
                ELSE /\ dir_work' = work
                     /\ dir_pending' = reqs
                     /\ Goto("dirsweep")
                     /\ UNCHANGED <<pending, rec_idx, slot, sf, btree_dirs, blk>>

\* The directory batch is done when no request is left.
AfterDirBuffer(left) ==
    IF left = {}
    THEN NextAg
    ELSE /\ dir_pending' = left
         /\ blk' = NoBlk
         /\ Goto("dirsweep")
         /\ UNCHANGED <<pending, rec_idx, slot, sf, dir_work, btree_dirs>>

\* coalesced_read_batch of the directory extents: one request completes and
\* its buffer is cut into directory blocks; a failed read ends the batch.
DirComplete ==
    /\ pc = "dirsweep"
    /\ UNCHANGED <<events, ag_count>>
    /\ \E r \in dir_pending, out \in {"Ok", "Io"} :
        IF out # "Ok"
        THEN Return(out)
        ELSE \E n \in 0..(MaxEntries - NumBlockEntries) :
             IF n = 0
             THEN AfterDirBuffer(dir_pending \ {r})
             ELSE /\ dir_pending' = dir_pending \ {r}
                  /\ blk' = [left |-> n]
                  /\ Goto("direntry")
                  /\ UNCHANGED <<pending, rec_idx, slot, sf, dir_work, btree_dirs>>

\* parse_dir_data_block inside the directory callback: one used entry, one
\* callback invocation.
EmitDirEntry ==
    /\ pc = "direntry"
    /\ UNCHANGED ag_count
    /\ \E ret \in ControlFlow :
        /\ events' = Append(events, Event("DirEntry", "block", agno, ret))
        /\ IF dir_emit(ret) # "Ok"
           THEN Return(dir_emit(ret))
           ELSE IF blk.left > 1
           THEN /\ blk' = [blk EXCEPT !.left = @ - 1]
                /\ Goto("direntry")
                /\ UNCHANGED <<pending, rec_idx, slot, sf, dir_work, btree_dirs,
                               dir_pending>>
           ELSE AfterDirBuffer(dir_pending)

Next ==
    \/ ReadSuperblock
    \/ ReadAgi
    \/ CollectInobt
    \/ ChunkComplete
    \/ ProcessSlot
    \/ EmitShortform
    \/ BmbtWalk
    \/ DirComplete
    \/ EmitDirEntry

Spec == Init /\ [][Next]_vars

\* ------------------------------------------------------------------------
\* Properties of the callback scan (Spec)
\* ------------------------------------------------------------------------

\* The place of an event variant in the order the phases of one allocation
\* group are said to follow.
PhaseRank(kind) ==
    CASE kind \in {"InodeFound", "InodeInfo"} -> 1
      [] kind \in {"FileExtents", "FileExtentsInfo"} -> 2
      [] kind \in {"DirEntry", "DirEntryInfo"} -> 3
      [] OTHER -> 0

\* C1: within one allocation group every InodeFound comes before every
\* FileExtents, and every FileExtents before every DirEntry, the entries of
\* shortform directories included.
C1_PhaseOrderInAg ==
    \A i, j \in 1..Len(events) :
        (/\ i < j
         /\ events[i].ag = events[j].ag
         /\ events[i].kind # "Superblock"
         /\ events[j].kind # "Superblock")
        => PhaseRank(events[i].kind) <= PhaseRank(events[j].kind)

\* C1, what the scan does keep: the entries decoded from directory blocks
\* come after every InodeFound of their allocation group.
C1_BlockEntriesAfterInodes ==
    \A i, j \in 1..Len(events) :
        (i < j /\ events[i].ag = events[j].ag /\ events[i].from = "block")
        => events[j].kind = "DirEntry"

\* C1: a shortform directory's entry was handed to the callback and a later
\* inode of the same allocation group was reported after it.
C1_ShortformBeforeInode ==
    \E i, j \in 1..Len(events) :
        /\ i < j
        /\ events[i].ag = events[j].ag
        /\ events[i].from = "shortform"
        /\ events[j].kind = "InodeFound"

C3_AgAscending ==
    \A i, j \in 1..Len(events) :
        i < j => events[i].ag <= events[j].ag

\* C3: inodes of two allocation groups have been reported.
C3_TwoGroupsReported ==
    \E i, j \in 1..Len(events) :
        /\ events[i].kind = "InodeFound" /\ events[i].ag = 0
        /\ events[j].kind = "InodeFound" /\ events[j].ag = 1

\* Where the first step of the scan fails, the callback has not been invoked.
C4_FailedSuperblockStep ==
    (pc = "start" /\ pc' = "done" /\ result' \in Errors) => events' = <<>>

\* C4: exactly one Superblock event is emitted and it is the first event; a
\* scan whose superblock read or decode fails never invokes the callback.
C4_SuperblockFirst ==
    /\ [](/\ \A k \in 1..Len(events) : (events[k].kind = "Superblock") <=> (k = 1)
          /\ (pc # "start" /\ events = <<>>) => (pc = "done" /\ result \in Errors))
    /\ [][C4_FailedSuperblockStep]_vars

\* C4: the Superblock event was followed by further events.
C4_EventsAfterSuperblock ==
    /\ Len(events) >= 3
    /\ events[1].kind = "Superblock"



\* ------------------------------------------------------------------------
\* src/src/staged.rs: the phased API
\* ------------------------------------------------------------------------

\* The cursors of a running phase are rewound.
ResetCursor ==
    /\ pending' = {}
    /\ rec_idx' = 0
    /\ slot' = 0
    /\ sf' = NoSf
    /\ dir_pending' = {}
    /\ blk' = NoBlk

\* The work a phase object owns is dropped with it.
DropCollections ==
    /\ dir_work' = <<>>
    /\ btree_dirs' = <<>>
    /\ shortform_dirs' = <<>>
    /\ btree_files' = <<>>

\* A phase method records its call.
Called(name) ==
    /\ op' = name
    /\ calls' = Append(calls, name)
    /\ handed' = handed

\* A phase method returns Err(e): `self` was consumed, no phase object is left.
Fail(e) ==
    /\ pc' = "idle"
    /\ result' = e
    /\ raised' = e
    /\ phase' = "none"
    /\ stopped' = FALSE
    /\ ResetCursor
    /\ DropCollections

\* A phase method returns Ok with the next phase object ("none" after the
\* directory phase); its cursors and its `stopped` flag go out of scope.
PhaseOk(next) ==
    /\ pc' = "idle"
    /\ result' = "Ok"
    /\ phase' = next
    /\ stopped' = FALSE
    /\ ResetCursor

\* A phase goes on at `to`.
Step(to) ==
    /\ pc' = to
    /\ UNCHANGED <<result, phase>>

InitStaged ==
    /\ pc = "new"
    /\ Fresh

\* parse_superblock: read and decode the superblock, hand out the FsScanner.
parse_superblock ==
    /\ pc = "new"
    /\ UNCHANGED outsideStaged
    /\ op' = "parse_superblock"
    /\ UNCHANGED <<calls, handed, dirs_missed>>
    /\ \E out \in {"Ok"} \cup Errors :
        IF out # "Ok"
        THEN /\ pc' = "closed"
             /\ result' = out
             /\ raised' = out
             /\ ag_count' = ag_count
        ELSE /\ pc' = "idle"
             /\ result' = "Ok"
             /\ raised' = "none"
             /\ ag_count' \in 0..MaxAg
    /\ UNCHANGED <<events, agno, pending, rec_idx, slot, sf, dir_work, btree_dirs,
                   dir_pending, blk, current_ag, phase, shortform_dirs,
                   btree_files, stopped>>

\* A next_ag that does not advance current_ag.
next_ag_stuck ==
    /\ pc = "idle"
    /\ UNCHANGED outsideStaged
    /\ phase = "none"
    /\ current_ag < ag_count
    /\ agno' = current_ag
    /\ current_ag' = current_ag
    /\ op' = "next_ag"
    /\ calls' = <<>>
    /\ handed' = Append(handed, current_ag)
    /\ dirs_missed' = dirs_missed
    /\ result' = "Ok"
    /\ raised' = "none"
    /\ phase' = "AgScanner"
    /\ UNCHANGED <<pc, events, ag_count, pending, rec_idx, slot, sf, dir_work,
                   btree_dirs, dir_pending, blk, shortform_dirs, btree_files,
                   stopped>>

\* FsScanner::next_ag with create_ag_scanner.  It borrows the scanner
\* mutably, so the caller holds no phase object of an earlier group.
next_ag ==
    /\ pc = "idle"
    /\ UNCHANGED outsideStaged
    /\ phase = "none"
    /\ IF current_ag >= ag_count
       THEN /\ op' = "next_ag"
            /\ result' = "None"
            /\ raised' = "none"
            /\ UNCHANGED <<agno, current_ag, calls, handed, dirs_missed, phase>>
       ELSE /\ agno' = current_ag
            /\ current_ag' = current_ag + 1
            /\ op' = "next_ag"
            /\ calls' = <<>>
            /\ handed' = Append(handed, current_ag)
            /\ dirs_missed' = dirs_missed
            /\ \E out \in {"Ok"} \cup Errors :
                IF out # "Ok"
                THEN /\ result' = out
                     /\ raised' = out
                     /\ phase' = "none"
                ELSE /\ result' = "Ok"
                     /\ raised' = "none"
                     /\ phase' = "AgScanner"
    /\ UNCHANGED <<pc, events, ag_count, pending, rec_idx, slot, sf, dir_work,
                   btree_dirs, dir_pending, blk, shortform_dirs, btree_files,
                   stopped>>

\* The caller lets go of the phase object it holds without running the
\* phase.
DropPhase ==
    /\ pc = "idle"
    /\ UNCHANGED outsideStaged
    /\ phase # "none"
    /\ phase' = "none"
    /\ DropCollections
    /\ UNCHANGED <<pc, result, events, ag_count, agno, pending, rec_idx, slot, sf,
                   dir_pending, blk, current_ag, stopped, op, calls, handed, dirs_missed,
                   raised>>

\* The inode-chunk batch of scan_inodes returned Ok, or goes on with the
\* `stopped` flag at `stop`.
AfterStagedChunk(left, stop) ==
    IF left = {}
    THEN PhaseOk("AgExtentPhase")
    ELSE /\ Step("s_chunks")
         /\ stopped' = stop
         /\ pending' = left
         /\ rec_idx' = 0
         /\ slot' = 0
         /\ UNCHANGED <<sf, dir_pending, blk>>

\* AgScanner::scan_inodes up to the batch: walk the inobt, sort the records,
\* build one request per chunk.
scan_inodes ==
    /\ pc = "idle"
    /\ UNCHANGED outsideStaged
    /\ phase = "AgScanner"
    /\ Called("scan_inodes")
    /\ UNCHANGED dirs_missed
    /\ UNCHANGED <<events, ag_count, agno, current_ag>>
    /\ \E out \in {"Ok"} \cup Errors :
        IF out # "Ok"
        THEN Fail(out)
        ELSE \E n \in 0..MaxChunks :
             /\ AfterStagedChunk(1..n, FALSE)
             /\ raised' = "none"
             /\ UNCHANGED <<dir_work, btree_dirs, shortform_dirs, btree_files>>

\* coalesced_read_batch of scan_inodes: one request completes, in any order;
\* a failed read ends the batch and the phase.  With `stopped` set the
\* handler returns Ok at once, otherwise process_inode_chunk_staged starts.
StagedChunkComplete ==
    /\ pc = "s_chunks"
    /\ UNCHANGED outsideStaged
    /\ UNCHANGED <<events, ag_count, agno, current_ag, op, calls, handed, dirs_missed>>
    /\ \E idx \in pending, out \in {"Ok", "Io"} :
        IF out # "Ok"
        THEN Fail(out)
        ELSE /\ IF stopped
                THEN AfterStagedChunk(pending \ {idx}, TRUE)
                ELSE /\ Step("s_slot")
                     /\ pending' = pending \ {idx}
                     /\ rec_idx' = idx
                     /\ slot' = 0
                     /\ UNCHANGED <<stopped, sf, dir_pending, blk>>
             /\ UNCHANGED <<raised, dir_work, btree_dirs, shortform_dirs, btree_files>>

\* What slot i of a chunk may hold, as process_inode_chunk_staged tells the
\* cases apart.
StagedSlotContents ==
    {"free", "short", "damaged"} \cup
    (IF NumInodes < MaxInodes
     THEN {"file", "file_btree",
           "dir_local", "dir_extents", "dir_btree", "dir_dev"}
     ELSE {})

\* process_inode_chunk_staged returns Ok: the batch goes on.
StagedChunkDone == AfterStagedChunk(pending, FALSE)

\* The loop of process_inode_chunk_staged goes to slot i + 1, or the chunk is
\* done.
StagedNextSlot ==
    IF slot + 1 < ChunkSlots
    THEN /\ Step("s_slot")
         /\ slot' = slot + 1
         /\ UNCHANGED <<stopped, pending, rec_idx, sf, dir_pending, blk>>
    ELSE StagedChunkDone

\* One iteration of process_inode_chunk_staged's loop, with
\* handle_directory_staged.
StagedProcessSlot ==
    /\ pc = "s_slot"
    /\ UNCHANGED outsideStaged
    /\ UNCHANGED <<ag_count, agno, current_ag, op, calls, handed, dirs_missed>>
    /\ \E c \in StagedSlotContents :
        CASE c = "free" ->
               /\ StagedNextSlot
               /\ UNCHANGED <<events, raised, dir_work, btree_dirs, shortform_dirs,
                              btree_files>>
          [] c = "short" ->
               /\ StagedChunkDone
               /\ UNCHANGED <<events, raised, dir_work, btree_dirs, shortform_dirs,
                              btree_files>>
          [] c = "damaged" ->
               \* parse_inode_core fails, or parse_extent_list does on the
               \* inline extents of a regular file
               /\ \E e \in {"BadMagic", "Parse"} : Fail(e)
               /\ UNCHANGED events
          [] OTHER ->
               \E ret \in ControlFlow :
               /\ events' = Append(events, Event("InodeInfo", "chunk", agno, ret))
               /\ IF ret = "Break"
                  THEN \* Err(Stopped) sets the flag; the handler returns Ok
                       /\ AfterStagedChunk(pending, TRUE)
                       /\ UNCHANGED <<raised, dir_work, btree_dirs, shortform_dirs,
                                      btree_files>>
                  ELSE
                  CASE c = "dir_local" ->
                         \* the fork is out of bounds, or it is saved
                         \/ Fail("Parse")
                         \/ /\ \E n \in 0..MaxSfEntries :
                                 shortform_dirs' = Append(shortform_dirs, [count |-> n])
                            /\ StagedNextSlot
                            /\ UNCHANGED <<raised, dir_work, btree_dirs, btree_files>>
                    [] c = "dir_extents" ->
                         \/ Fail("Parse")
                         \/ /\ \E xs \in ExtentLists :
                                 dir_work' = Append(dir_work, [extents |-> xs])
                            /\ StagedNextSlot
                            /\ UNCHANGED <<raised, btree_dirs, shortform_dirs, btree_files>>
                    [] c = "dir_btree" ->
                         /\ btree_dirs' = Append(btree_dirs, "fork")
                         /\ StagedNextSlot
                         /\ UNCHANGED <<raised, dir_work, shortform_dirs, btree_files>>
                    [] c = "file_btree" ->
                         /\ btree_files' = Append(btree_files, "fork")
                         /\ StagedNextSlot
                         /\ UNCHANGED <<raised, dir_work, btree_dirs, shortform_dirs>>
                    [] OTHER ->
                         /\ StagedNextSlot
                         /\ UNCHANGED <<raised, dir_work, btree_dirs, shortform_dirs,
                                        btree_files>>

\* The directories among the bmbt results `order`, as work items.
BmbtDirWork(order, found) ==
    LET dirs == SelectSeq(order, LAMBDA x : x[1] = "dir")
    IN [k \in DOMAIN dirs |-> [extents |-> found[dirs[k][2]]]]

\* The callbacks made for the regular files among the bmbt results `order`;
\* with brk > 0 the result at place brk is the file whose callback breaks.
BmbtFileEvents(order, brk, a) ==
    LET files == SelectSeq(order, LAMBDA x : x[1] = "file")
    IN [k \in DOMAIN files |->
           Event("FileExtentsInfo", "bmbt", a,
                 IF brk > 0 /\ k = Len(files) THEN "Break" ELSE "Continue")]

\* AgExtentPhase::scan_file_extents: one batched bmbt walk for the
\* btree-format directories and files, then the loop over its results in the
\* order the map yields them: a directory with extents is queued, a file
\* with extents is handed to the callback, whose Break ends the loop.
scan_file_extents ==
    /\ pc = "idle"
    /\ UNCHANGED outsideStaged
    /\ phase = "AgExtentPhase"
    /\ Called("scan_file_extents")
    /\ UNCHANGED <<ag_count, agno, current_ag, shortform_dirs>>
    /\ \E out \in {"Ok"} \cup Errors :
        IF (btree_dirs # <<>> \/ btree_files # <<>>) /\ out # "Ok"
        THEN Fail(out) /\ UNCHANGED events /\ dirs_missed' = 0
        ELSE \E found \in BmbtExtents(btree_dirs),
                withExtents \in SUBSET (DOMAIN btree_files) :
             \E all \in Perms({<<"dir", d>> : d \in {x \in DOMAIN btree_dirs : found[x] # <<>>}}
                              \cup {<<"file", f>> : f \in withExtents}) :
             \E brk \in {0} \cup {k \in DOMAIN all : all[k][1] = "file"} :
             LET order == IF brk = 0 THEN all ELSE SubSeq(all, 1, brk) IN
             /\ dir_work' = dir_work \o BmbtDirWork(order, found)
             /\ dirs_missed' = Cardinality({x \in DOMAIN btree_dirs : found[x] # <<>>})
                                  - Len(BmbtDirWork(order, found))
             /\ events' = events \o BmbtFileEvents(order, brk, agno)
             /\ btree_dirs' = <<>>
             /\ btree_files' = <<>>
             /\ raised' = "none"
             /\ PhaseOk("AgDirPhase")

\* AgExtentPhase::skip_extents: the bmbt walk for the btree-format
\* directories only; its result is used `if let Ok`, and the method returns
\* the directory phase whatever the walk returned.
skip_extents ==
    /\ pc = "idle"
    /\ UNCHANGED outsideStaged
    /\ phase = "AgExtentPhase"
    /\ Called("skip_extents")
    /\ UNCHANGED dirs_missed
    /\ UNCHANGED <<events, ag_count, agno, current_ag, shortform_dirs>>
    /\ \E out \in {"Ok"} \cup Errors :
        /\ IF btree_dirs # <<>> /\ out # "Ok"
           THEN /\ raised' = out
                /\ dir_work' = dir_work
           ELSE /\ raised' = "none"
                /\ \E found \in BmbtExtents(btree_dirs) :
                   \E order \in Perms({<<"dir", d>> :
                                        d \in {x \in DOMAIN btree_dirs : found[x] # <<>>}}) :
                       dir_work' = dir_work \o BmbtDirWork(order, found)
        /\ btree_dirs' = <<>>
        /\ btree_files' = <<>>
        /\ PhaseOk("AgDirPhase")

\* scan_dir_entries after the shortform directories: nothing is left to
\* read, or the directory batch starts.
StartDirBatch ==
    LET reqs == IF dir_work = <<>> THEN {} ELSE DirRequests(dir_work) IN
    IF reqs = {}
    THEN PhaseOk("none") /\ DropCollections
    ELSE /\ Step("s_dirsweep")
         /\ stopped' = FALSE
         /\ dir_pending' = reqs
         /\ sf' = NoSf
         /\ shortform_dirs' = <<>>
         /\ UNCHANGED <<pending, rec_idx, slot, blk, dir_work, btree_dirs, btree_files>>

\* scan_dir_entries turns to the next saved shortform fork, or to the batch.
NextShortform(left) ==
    IF left # <<>>
    THEN /\ Step("s_shortform")
         /\ sf' = [next |-> 0, count |-> Head(left).count]
         /\ shortform_dirs' = Tail(left)
         /\ UNCHANGED <<stopped, pending, rec_idx, slot, dir_pending, blk, dir_work,
                        btree_dirs, btree_files>>
    ELSE StartDirBatch

\* AgDirPhase::scan_dir_entries, up to its first callback or read.
scan_dir_entries ==
    /\ pc = "idle"
    /\ UNCHANGED outsideStaged
    /\ phase = "AgDirPhase"
    /\ Called("scan_dir_entries")
    /\ dirs_missed' = 0
    /\ raised' = "none"
    /\ NextShortform(shortform_dirs)
    /\ UNCHANGED <<events, ag_count, agno, current_ag>>

\* parse_shortform_dir_staged inside scan_dir_entries: the header or an
\* on-disk entry is out of bounds, or one callback is made; its Break ends
\* the phase with Ok(()).
StagedEmitShortform ==
    /\ pc = "s_shortform"
    /\ UNCHANGED outsideStaged
    /\ UNCHANGED <<ag_count, agno, current_ag, op, calls, handed, dirs_missed>>
    /\ \/ /\ sf.next # 1
          /\ Fail("Parse")
          /\ UNCHANGED events
       \/ \E ret \in ControlFlow :
          /\ events' = Append(events, Event("DirEntryInfo", "shortform", agno, ret))
          /\ raised' = raised
          /\ IF dir_emit(ret) # "Ok"
             THEN PhaseOk("none") /\ DropCollections
             ELSE IF sf.next + 1 < 2 + sf.count
             THEN /\ Step("s_shortform")
                  /\ sf' = [sf EXCEPT !.next = @ + 1]
                  /\ UNCHANGED <<stopped, pending, rec_idx, slot, dir_pending, blk,
                                 dir_work, btree_dirs, shortform_dirs, btree_files>>
             ELSE NextShortform(shortform_dirs)

\* The directory batch of scan_dir_entries returned Ok, or goes on with the
\* `stopped` flag at `stop`.
AfterStagedDirBuffer(left, stop) ==
    IF left = {}
    THEN PhaseOk("none") /\ DropCollections
    ELSE /\ Step("s_dirsweep")
         /\ stopped' = stop
         /\ dir_pending' = left
         /\ blk' = NoBlk
         /\ UNCHANGED <<pending, rec_idx, slot, sf, dir_work, btree_dirs,
                        shortform_dirs, btree_files>>

\* coalesced_read_batch of scan_dir_entries: one request completes; a failed
\* read ends the batch and the phase.  With `stopped` set the handler
\* returns Ok at once, otherwise the buffer is cut into directory blocks.
StagedDirComplete ==
    /\ pc = "s_dirsweep"
    /\ UNCHANGED outsideStaged
    /\ UNCHANGED <<events, ag_count, agno, current_ag, op, calls, handed, dirs_missed>>
    /\ \E r \in dir_pending, out \in {"Ok", "Io"} :
        IF out # "Ok"
        THEN Fail(out)
        ELSE /\ raised' = raised
             /\ IF stopped
                THEN AfterStagedDirBuffer(dir_pending \ {r}, TRUE)
                ELSE \E n \in 0..(MaxEntries - NumBlockEntries) :
                     IF n = 0
                     THEN AfterStagedDirBuffer(dir_pending \ {r}, FALSE)
                     ELSE /\ Step("s_direntry")
                          /\ dir_pending' = dir_pending \ {r}
                          /\ blk' = [left |-> n]
                          /\ UNCHANGED <<stopped, pending, rec_idx, slot, sf, dir_work,
                                         btree_dirs, shortform_dirs, btree_files>>

\* parse_dir_data_block_staged inside the directory handler: one used entry,
\* one callback; its Break sets `stopped` and the handler returns Ok.
StagedEmitDirEntry ==
    /\ pc = "s_direntry"
    /\ UNCHANGED outsideStaged
    /\ UNCHANGED <<ag_count, agno, current_ag, op, calls, handed, dirs_missed, raised>>
    /\ \E ret \in ControlFlow :
        /\ events' = Append(events, Event("DirEntryInfo", "block", agno, ret))
        /\ IF dir_emit(ret) # "Ok"
           THEN AfterStagedDirBuffer(dir_pending, TRUE)
           ELSE IF blk.left > 1
           THEN /\ Step("s_direntry")
                /\ blk' = [blk EXCEPT !.left = @ - 1]
                /\ UNCHANGED <<stopped, pending, rec_idx, slot, sf, dir_pending,
                               dir_work, btree_dirs, shortform_dirs, btree_files>>
           ELSE AfterStagedDirBuffer(dir_pending, FALSE)

\* AgDirPhase::skip_dirs.
skip_dirs ==
    /\ pc = "idle"
    /\ UNCHANGED outsideStaged
    /\ phase = "AgDirPhase"
    /\ Called("skip_dirs")
    /\ dirs_missed' = 0
    /\ raised' = "none"
    /\ PhaseOk("none")
    /\ DropCollections
    /\ UNCHANGED <<events, ag_count, agno, current_ag>>

NextStaged ==
    \/ parse_superblock
    \/ next_ag
    \/ DropPhase
    \/ scan_inodes
    \/ StagedChunkComplete
    \/ StagedProcessSlot
    \/ scan_file_extents
    \/ skip_extents
    \/ scan_dir_entries
    \/ StagedEmitShortform
    \/ StagedDirComplete
    \/ StagedEmitDirEntry
    \/ skip_dirs

SpecStaged == InitStaged /\ [][NextStaged]_vars


\* ------------------------------------------------------------------------
\* Properties of the phased API (SpecStaged)
\* ------------------------------------------------------------------------

\* C5: a failure raised by the reader or by a decoder ends the call and is
\* what the call returns: no entry point returns anything else once a
\* failure was raised in it.
C5_FailuresSurface ==
    (pc \in {"idle", "closed"} /\ raised # "none") => result = raised

\* C5: skip_extents returned the directory phase although its bmbt walk
\* failed.
C5_SkipExtentsAfterFailure ==
    /\ pc = "idle"
    /\ op = "skip_extents"
    /\ raised # "none"
    /\ phase = "AgDirPhase"

\* The phase methods that take a callback, and what each hands to it.
CallbackKind(name) ==
    CASE name = "scan_inodes" -> "InodeInfo"
      [] name = "scan_file_extents" -> "FileExtentsInfo"
      [] name = "scan_dir_entries" -> "DirEntryInfo"
      [] OTHER -> "none"

\* The callback of the phase `name` of the current group returned Break.
BrokeIn(name) ==
    \E k \in 1..Len(events) :
        /\ events[k].ag = agno
        /\ events[k].kind = CallbackKind(name)
        /\ events[k].ret = "Break"

\* C6: once a phase's callback returns Break it is not invoked again in that
\* phase, the completions left in the batch are drained unprocessed, and the
\* phase returns Ok, never Err(Stopped).
C6_BreakEndsPhaseOk ==
    /\ \A i, j \in 1..Len(events) :
        (i < j /\ events[i].ag = events[j].ag /\ events[i].kind = events[j].kind)
        => events[i].ret # "Break"
    /\ stopped => events[Len(events)].ret = "Break"
    /\ (pc = "idle" /\ CallbackKind(op) # "none" /\ BrokeIn(op)) => result = "Ok"
    /\ result # "Stopped"

\* C6, what the phases do keep: no callback follows a Break in its phase,
\* nothing is processed while `stopped` is set, Stopped is never returned,
\* and the only error a phase returns after a Break is that of a failed read
\* of the batch it was draining.
C6_BreakEndsPhaseUnlessReadFails ==
    /\ \A i, j \in 1..Len(events) :
        (i < j /\ events[i].ag = events[j].ag /\ events[i].kind = events[j].kind)
        => events[i].ret # "Break"
    /\ stopped => events[Len(events)].ret = "Break"
    /\ (pc = "idle" /\ CallbackKind(op) # "none" /\ BrokeIn(op))
       => \/ result = "Ok"
          \/ result = "Io" /\ raised = "Io" /\ op # "scan_file_extents"
    /\ result # "Stopped"

\* C6: a phase whose callback had returned Break returned an error.
C6_ErrorAfterBreak ==
    /\ pc = "idle"
    /\ CallbackKind(op) # "none"
    /\ BrokeIn(op)
    /\ result \in Errors

\* The place of a phase method in the order the types allow.
Stage(name) ==
    CASE name = "scan_inodes" -> 1
      [] name \in {"scan_file_extents", "skip_extents"} -> 2
      [] name \in {"scan_dir_entries", "skip_dirs"} -> 3
      [] OTHER -> 0

\* C7: for each allocation group the phases run in the order scan_inodes,
\* scan_file_extents or skip_extents, scan_dir_entries or skip_dirs, each at
\* most once and no group twice; so within a group every InodeInfo callback
\* precedes every FileExtentsInfo callback, which precedes every
\* DirEntryInfo callback (those of shortform directories too), and the
\* callbacks of group n precede those of group n + 1.
C7_PhasesInOrder ==
    /\ \A i, j \in DOMAIN handed : i < j => handed[i] < handed[j]
    /\ \A k \in DOMAIN calls : Stage(calls[k]) = k
    /\ \A i, j \in 1..Len(events) :
        i < j =>
            /\ events[i].ag <= events[j].ag
            /\ events[i].ag = events[j].ag
               => PhaseRank(events[i].kind) <= PhaseRank(events[j].kind)

\* C7: all three phases of group 0 made callbacks, a shortform directory's
\* entries among them, and a phase of group 1 has run.
C7_ThreePhasesThenNextGroup ==
    /\ handed = <<0, 1>>
    /\ calls # <<>>
    /\ \E i, j, k \in 1..Len(events) :
        /\ events[i].ag = 0 /\ events[i].kind = "InodeInfo"
        /\ events[j].ag = 0 /\ events[j].kind = "FileExtentsInfo"
        /\ events[k].ag = 0 /\ events[k].from = "shortform"


\* ------------------------------------------------------------------------
\* src/src/reader.rs, src/src/io/engine.rs: batch reads
\* ------------------------------------------------------------------------

\* IO_ALIGN (src/src/io/aligned_buf.rs).
IO_ALIGN == 512

\* BATCH_QUEUE_DEPTH of engine.rs is 128; the model runs read_batch with a
\* queue this deep, so that batches longer than the queue are within reach.
BATCH_QUEUE_DEPTH == 2

\* Requests of one batch.
MaxRequests == 3

\* The device, in aligned blocks.
DeviceBlocks == 2

\* device_size, in bytes.
DeviceSize == DeviceBlocks * IO_ALIGN

Min(a, b) == IF a < b THEN a ELSE b

\* The byte offsets and lengths a request is drawn from: inside the device,
\* reaching over its end, at its end, and shorter than one aligned block.
Offsets == {0, IO_ALIGN, DeviceSize}
Lens == {IO_ALIGN \div 2, 2 * IO_ALIGN}

\* The tag of the i-th request; tags may repeat within a batch.
TagOf(i) == i % 2

\* len.min(device_size.saturating_sub(offset)) & !(IO_ALIGN - 1)
Clamped(offset, len) ==
    LET available == IF DeviceSize > offset THEN DeviceSize - offset ELSE 0
    IN (Min(len, available) \div IO_ALIGN) * IO_ALIGN

\* What on_complete may return: Ok, or an error of the caller's handler (the
\* scans return decoder errors and Stopped through it).
HandlerResults == {"Ok", "Stopped"} \cup Errors

\* A pool of any size the batch asks for.
PoolSizeUnbounded(n) == n

\* pool_size of read_batch.
PoolSize(n) == Min(BATCH_QUEUE_DEPTH, n)

\* The batch returns `out` to its caller.
BatchReturn(out) ==
    /\ pc' = "b_done"
    /\ result' = out

InitBatch ==
    /\ pc = "b_new"
    /\ Fresh

\* coalesced_read_batch / read_batch is called with n requests, on the
\* default reader or on the io_uring engine, which sets up its slot pool
\* and its ring.
BatchStart ==
    /\ pc = "b_new"
    /\ \E which \in {"default", "uring"}, n \in 0..MaxRequests :
        /\ impl' = which
        /\ n_req' = n
        /\ IF which = "default"
           THEN /\ IF n = 0 THEN BatchReturn("Ok") ELSE pc' = "d_next" /\ result' = result
                /\ raised' = "none"
                /\ UNCHANGED <<free_slots, slot_tags, slot_req>>
           ELSE IF n = 0
           THEN /\ BatchReturn("Ok")
                /\ raised' = "none"
                /\ UNCHANGED <<free_slots, slot_tags, slot_req>>
           ELSE \* IoUring::new fails, or the pool is ready
                \/ /\ BatchReturn("Io")
                   /\ raised' = "Io"
                   /\ UNCHANGED <<free_slots, slot_tags, slot_req>>
                \/ /\ pc' = "b_submit"
                   /\ result' = result
                   /\ raised' = "none"
                   /\ free_slots' = [k \in 1..PoolSize(n) |-> PoolSize(n) - k]
                   /\ slot_tags' = [s \in 0..(PoolSize(n) - 1) |-> "None"]
                   /\ slot_req' = [s \in 0..(PoolSize(n) - 1) |-> 0]
    /\ UNCHANGED <<next_req, in_flight, flying, in_callback, completed>>
    /\ UNCHANGED outsideBatch

\* The default coalesced_read_batch: the next request is read with read_at
\* and handed to on_complete; either may fail and `?` returns the error.
\* IoEngine::read_at fails when nothing of the request lies inside the
\* device.
DefaultNext ==
    /\ pc = "d_next"
    /\ \E offset \in Offsets, len \in Lens, out \in {"Ok", "Io"}, ret \in HandlerResults :
        LET req == next_req + 1 IN
        /\ next_req' = req
        /\ IF out # "Ok" \/ Clamped(offset, len) = 0
           THEN /\ BatchReturn("Io")
                /\ raised' = "Io"
                /\ completed' = completed
           ELSE /\ completed' = Append(completed, [req |-> req, tag |-> TagOf(req), ret |-> ret])
                /\ IF ret # "Ok"
                   THEN BatchReturn(ret) /\ raised' = ret
                   ELSE /\ raised' = raised
                        /\ IF req = n_req
                           THEN BatchReturn("Ok")
                           ELSE pc' = "d_next" /\ result' = result
    /\ UNCHANGED <<impl, n_req, in_flight, free_slots, slot_tags, slot_req, flying,
                   in_callback>>
    /\ UNCHANGED outsideBatch

\* read_batch, submit phase: one turn of the inner loop.  A request of which
\* nothing lies inside the device is passed over; otherwise a free slot is
\* popped and the read is queued (the submission queue is as deep as the pool
\* is large at most, so the push finds room).  When the loop ends the batch is over
\* (nothing in flight) or the ring is waited on.
Submit ==
    /\ pc = "b_submit"
    /\ IF next_req < n_req /\ free_slots # <<>>
       THEN \E offset \in Offsets, len \in Lens :
            LET req == next_req + 1
                s == free_slots[Len(free_slots)]
            IN
            /\ next_req' = req
            /\ pc' = "b_submit"
            /\ result' = result
            /\ IF Clamped(offset, len) = 0
               THEN UNCHANGED <<in_flight, free_slots, slot_tags, slot_req, flying>>
               ELSE /\ free_slots' = SubSeq(free_slots, 1, Len(free_slots) - 1)
                    /\ slot_tags' = [slot_tags EXCEPT ![s] = TagOf(req)]
                    /\ slot_req' = [slot_req EXCEPT ![s] = req]
                    /\ flying' = flying \cup {s}
                    /\ in_flight' = in_flight + 1
       ELSE /\ IF in_flight = 0
               THEN BatchReturn("Ok")
               ELSE pc' = "b_wait" /\ result' = result
            /\ UNCHANGED <<next_req, in_flight, free_slots, slot_tags, slot_req, flying>>
    /\ UNCHANGED <<impl, n_req, in_callback, completed, raised>>
    /\ UNCHANGED outsideBatch

\* ring.submit_and_wait(1): it fails, or at least one read has completed.
Wait ==
    /\ pc = "b_wait"
    /\ \/ BatchReturn("Io") /\ raised' = "Io"
       \/ pc' = "b_cqe" /\ result' = result /\ raised' = raised
    /\ UNCHANGED <<impl, n_req, next_req, in_flight, free_slots, slot_tags, slot_req,
                   flying, in_callback, completed>>
    /\ UNCHANGED outsideBatch

\* read_batch, completion phase: the next completion entry is taken, the
\* reads completing in any order.  A failed read ends the batch; otherwise
\* the slot's tag is taken and its buffer is passed to on_complete.
TakeCompletion ==
    /\ pc = "b_cqe"
    /\ \E s \in flying, out \in {"Ok", "Io"} :
        /\ flying' = flying \ {s}
        /\ IF out # "Ok"
           THEN /\ BatchReturn("Io")
                /\ raised' = "Io"
                /\ UNCHANGED <<in_callback, slot_tags>>
           ELSE /\ pc' = "b_callback"
                /\ result' = result
                /\ raised' = raised
                /\ in_callback' = [slot |-> s, tag |-> slot_tags[s]]
                /\ slot_tags' = [slot_tags EXCEPT ![s] = "None"]
    /\ UNCHANGED <<impl, n_req, next_req, in_flight, free_slots, slot_req, completed>>
    /\ UNCHANGED outsideBatch

\* An on_complete whose error the batch does not look at.
HandlerReturnedUnchecked(ret) ==
    /\ free_slots' = Append(free_slots, in_callback.slot)
    /\ in_flight' = in_flight - 1
    /\ raised' = IF ret # "Ok" THEN ret ELSE raised
    /\ \E more \in BOOLEAN :
        IF more /\ flying # {}
        THEN pc' = "b_cqe" /\ result' = result
        ELSE IF next_req < n_req \/ in_flight - 1 > 0
        THEN pc' = "b_submit" /\ result' = result
        ELSE BatchReturn("Ok")

\* on_complete returned `ret`: `?` returns its error; otherwise the slot is
\* pushed back on free_slots, in_flight is decremented, and the loop over
\* the completion queue goes on or ends.
HandlerReturned(ret) ==
    IF ret # "Ok"
    THEN /\ BatchReturn(ret)
         /\ raised' = ret
         /\ UNCHANGED <<free_slots, in_flight>>
    ELSE /\ free_slots' = Append(free_slots, in_callback.slot)
         /\ in_flight' = in_flight - 1
         /\ raised' = raised
         /\ \E more \in BOOLEAN :
             IF more /\ flying # {}
             THEN pc' = "b_cqe" /\ result' = result
             ELSE IF next_req < n_req \/ in_flight - 1 > 0
             THEN pc' = "b_submit" /\ result' = result
             ELSE BatchReturn("Ok")

\* read_batch, completion phase: on_complete runs on the slot's buffer and
\* returns.
RunHandler ==
    /\ pc = "b_callback"
    /\ \E ret \in HandlerResults :
        /\ completed' = Append(completed, [req |-> slot_req[in_callback.slot],
                                           tag |-> in_callback.tag, ret |-> ret])
        /\ HandlerReturned(ret)
    /\ in_callback' = NoCallback
    /\ UNCHANGED <<impl, n_req, next_req, slot_tags, slot_req, flying>>
    /\ UNCHANGED outsideBatch

NextBatch ==
    \/ BatchStart
    \/ DefaultNext
    \/ Submit
    \/ Wait
    \/ TakeCompletion
    \/ RunHandler

SpecBatch == InitBatch /\ [][NextBatch]_vars


\* ------------------------------------------------------------------------
\* Claims about a batch read.
\* ------------------------------------------------------------------------

\* The batch read is inside IoEngine::read_batch.
InReadBatch == impl = "uring" /\ pc \in {"b_submit", "b_wait", "b_cqe", "b_callback"}

\* The number of on_complete invocations made for request i with its tag.
Invocations(i) ==
    Cardinality({k \in 1..Len(completed) :
                    completed[k].req = i /\ completed[k].tag = TagOf(i)})

\* C8: when a batch read returns Ok, on_complete has been invoked exactly
\* once for each element of `requests`, with that element's tag, wherever
\* the element lies relative to the end of the device.
C8_OncePerRequest ==
    (pc = "b_done" /\ result = "Ok") =>
        /\ Len(completed) = n_req
        /\ \A i \in 1..n_req : Invocations(i) = 1

\* C8, the sequential default reader: it returns Ok only after one
\* invocation per request, in request order.
C8_DefaultOncePerRequest ==
    (impl = "default" /\ pc = "b_done" /\ result = "Ok") =>
        /\ Len(completed) = n_req
        /\ \A i \in 1..n_req : completed[i].req = i /\ completed[i].tag = TagOf(i)

\* C8: read_batch has returned Ok although a request got no on_complete.
C8_OkWithRequestPassedOver ==
    /\ impl = "uring"
    /\ pc = "b_done"
    /\ result = "Ok"
    /\ \E i \in 1..n_req : Invocations(i) = 0

\* The invocations of on_complete only grow, one at a time.
CompletedGrows ==
    \/ completed' = completed
    \/ \E e \in [req : 1..MaxRequests, tag : {0, 1}, ret : HandlerResults] :
        completed' = Append(completed, e)

\* C9: when a read fails or on_complete returns an error, the batch returns
\* that error and on_complete is invoked for no further request; the
\* invocations already made stay as they were.
C9_FailureAbortsBatch ==
    /\ [](/\ raised # "none" => pc = "b_done" /\ result = raised
          /\ \A k \in 1..Len(completed) :
                completed[k].ret # "Ok" =>
                    /\ k = Len(completed)
                    /\ pc = "b_done"
                    /\ result = completed[k].ret)
    /\ [][CompletedGrows /\ (raised # "none" => completed' = completed)]_vars

\* C9: on_complete failed for a later request of an io_uring batch while
\* another read was still in flight, after an earlier invocation succeeded.
C9_HandlerFailedMidBatch ==
    /\ impl = "uring"
    /\ pc = "b_done"
    /\ Len(completed) >= 2
    /\ completed[Len(completed)].ret \in Errors
    /\ result = completed[Len(completed)].ret
    /\ flying # {}

\* A slot is given to a new read only when it is neither being read into
\* nor being passed to on_complete.
SlotAssignedWhenIdle ==
    \A s \in DOMAIN slot_req :
        (s \in DOMAIN slot_req' /\ slot_req'[s] # slot_req[s]) =>
            /\ s \notin flying
            /\ s # in_callback.slot

\* C10: throughout read_batch the reads in flight number at most
\* min(BATCH_QUEUE_DEPTH, requests.len()), in_flight plus the free slots is
\* the pool size, and no slot is assigned to a new read while a read into it
\* is in flight or while it is being passed to on_complete.
C10_BoundedInFlight ==
    /\ [](InReadBatch =>
            /\ in_flight <= Min(BATCH_QUEUE_DEPTH, n_req)
            /\ in_flight = Cardinality(flying) + (IF in_callback = NoCallback THEN 0 ELSE 1)
            /\ in_flight + Len(free_slots) = Cardinality(DOMAIN slot_tags)
            /\ \A j, k \in 1..Len(free_slots) : free_slots[j] = free_slots[k] => j = k
            /\ \A k \in 1..Len(free_slots) :
                  free_slots[k] \notin flying /\ free_slots[k] # in_callback.slot)
    /\ [][SlotAssignedWhenIdle]_vars

\* C10: every slot of the pool is taken, one of them by a running
\* on_complete, while requests are still waiting for a slot.
C10_PoolExhausted ==
    /\ InReadBatch
    /\ pc = "b_callback"
    /\ in_flight = BATCH_QUEUE_DEPTH
    /\ free_slots = <<>>
    /\ next_req < n_req


\* ------------------------------------------------------------------------
\* One read request on the direct-I/O engine (src/src/io/engine.rs), through
\* IoEngine::read_at or as one request of IoEngine::read_batch (on io_uring,
\* or the pread fallback of the other platforms).  Offsets and lengths are
\* multiples of IO_ALIGN, as the reader's callers keep them.
\* ------------------------------------------------------------------------

\* The longest request, in aligned blocks.
MaxReadBlocks == 3

\* Request offsets: in the device, at its end, and beyond it.
ReadOffsets == {k * IO_ALIGN : k \in 0..(DeviceBlocks + 1)}

\* Request lengths.
ReadLens == {k * IO_ALIGN : k \in 1..MaxReadBlocks}

\* The step in which the kernel's byte counts vary.
ReadGranule == IO_ALIGN \div 2

\* What the kernel may answer to a read of `want` bytes: -1 for a failure,
\* or a byte count up to `want` (0 at end of file).
KernelResults(want) == {-1} \cup {k * ReadGranule : k \in 0..(want \div ReadGranule)}

\* The request ends: with an error, or with `n` bytes handed over (-1: the
\* request was passed over and no buffer was handed over).
ReadReturn(out, n) ==
    /\ pc' = "r_done"
    /\ result' = out
    /\ rd_delivered' = n

InitRead ==
    /\ pc = "r_new"
    /\ Fresh

\* read_at(offset, len), or read_batch reaching the request (offset, len):
\* the length is clamped to the device and rounded down to IO_ALIGN.
\* read_at fails when nothing is left; read_batch passes the request over.
ReadStart ==
    /\ pc = "r_new"
    /\ \E via \in {"read_at", "read_batch", "read_batch_pread"},
          offset \in ReadOffsets, len \in ReadLens :
        /\ rd_via' = via
        /\ rd_offset' = offset
        /\ rd_len' = len
        /\ rd_clamped' = Clamped(offset, len)
        /\ IF Clamped(offset, len) = 0
           THEN IF via = "read_at" THEN ReadReturn("Io", -1) ELSE ReadReturn("Ok", -1)
           ELSE /\ pc' = IF via = "read_batch" THEN "r_cqe" ELSE "r_pread"
                /\ UNCHANGED <<result, rd_delivered>>
    /\ UNCHANGED rd_total
    /\ UNCHANGED outsideRead

\* After the pread loop: read_at fails when nothing was read, the fallback
\* read_batch then makes no callback; otherwise the bytes read are handed
\* over.
AfterPread(total) ==
    IF total > 0
    THEN ReadReturn("Ok", total)
    ELSE IF rd_via = "read_at" THEN ReadReturn("Io", -1) ELSE ReadReturn("Ok", -1)

\* The pread loop of read_at and of the fallback read_batch: one pread of
\* the bytes still missing.  A failure is returned; at end of file the loop
\* ends, as it does when all bytes are there.
Pread ==
    /\ pc = "r_pread"
    /\ \E ret \in KernelResults(rd_clamped - rd_total) :
        IF ret < 0
        THEN ReadReturn("Io", -1) /\ UNCHANGED rd_total
        ELSE IF ret = 0
        THEN /\ AfterPread(rd_total)
             /\ UNCHANGED rd_total
        ELSE /\ rd_total' = rd_total + ret
             /\ IF rd_total + ret < rd_clamped
                THEN UNCHANGED <<pc, result, rd_delivered>>
                ELSE AfterPread(rd_total + ret)
    /\ UNCHANGED <<rd_via, rd_offset, rd_len, rd_clamped>>
    /\ UNCHANGED outsideRead

\* The io_uring read_batch's completion of the request: a negative result is returned as
\* an error; otherwise result.min(slot_lens[slot]) bytes go to on_complete.
ReadCompletion ==
    /\ pc = "r_cqe"
    /\ \E res \in KernelResults(rd_clamped) :
        /\ IF res < 0
           THEN ReadReturn("Io", -1)
           ELSE ReadReturn("Ok", Min(res, rd_clamped))
        /\ rd_total' = IF res < 0 THEN 0 ELSE res
    /\ UNCHANGED <<rd_via, rd_offset, rd_len, rd_clamped>>
    /\ UNCHANGED outsideRead

NextRead ==
    \/ ReadStart
    \/ Pread
    \/ ReadCompletion

SpecRead == InitRead /\ [][NextRead]_vars

\* A buffer shorter than the request was handed over.
ShortDelivery ==
    /\ pc = "r_done"
    /\ result = "Ok"
    /\ rd_delivered >= 0
    /\ rd_delivered < rd_len

\* C11: read_at and the batch read hand over a buffer shorter than the
\* requested length only when the request reaches or passes the end of the
\* device; any other short read is reported as an I/O error.
C11_ShortOnlyAtDeviceEnd ==
    ShortDelivery => rd_offset + rd_len >= DeviceSize

\* C11: read_batch handed over fewer bytes than a request that lies wholly
\* inside the device asked for.
C11_ShortInsideDevice ==
    /\ ShortDelivery
    /\ rd_via = "read_batch"
    /\ rd_offset + rd_len < DeviceSize


\* ------------------------------------------------------------------------
\* Two scans of one allocation group of the same image through the phased
\* API (src/src/staged.rs), every callback returning Continue and every
\* read succeeding.  The image is fixed before the first scan; what varies
\* between the scans is the order in which the reader completes the reads
\* of a batch and the iteration order of the map that
\* collect_all_bmbt_extents returns.
\* ------------------------------------------------------------------------

\* Allocated inodes of the group.
MaxTwiceInodes == 3

TwiceInos == 1..MaxTwiceInodes

\* What an allocated inode of the image is: a file or directory whose data
\* fork is in extents or btree format.
TwiceKinds == {"file_extents", "file_btree", "dir_extents", "dir_btree"}

\* The inobt record (chunk) that holds inode i.
ChunkOf(i) == (i - 1) \div ChunkSlots

\* The byte offset rank of the directory extent of inode i: directories lie
\* on the disk in the reverse of their inode order.
DirOffset(i) == MaxTwiceInodes - i

\* The inodes of kind k in the image.
InosOf(kinds) == {i \in TwiceInos : tw_image[i] \in kinds}

\* Inodes ascending, as a sequence.
RECURSIVE Ascending(_)
Ascending(S) ==
    IF S = {} THEN <<>>
    ELSE LET least == CHOOSE x \in S : \A y \in S : x <= y
         IN <<least>> \o Ascending(S \ {least})

\* The events of the running scan get `evs` appended.
Deliver(evs) ==
    tw_events' = [tw_events EXCEPT ![tw_run] = @ \o evs]

\* The requests a batch may complete next: the sequential default reader
\* completes them in request order (keys ascending), the io_uring reader in
\* any order.
MayComplete(left, key) ==
    IF tw_reader = "default"
    THEN {x \in left : \A y \in left : key[x] <= key[y]}
    ELSE left

SameKey(x) == x

InitTwice ==
    /\ pc = "t_new"
    /\ Fresh

\* The image and the reader are fixed and the first scan_inodes issues the
\* batch of inode-chunk reads, sorted by start_ino.
TwiceStart ==
    /\ pc = "t_new"
    /\ \E image \in [TwiceInos -> TwiceKinds], reader \in {"default", "uring"} :
        /\ tw_image' = image
        /\ tw_reader' = reader
    /\ tw_run' = 1
    /\ tw_left' = {ChunkOf(i) : i \in TwiceInos}
    /\ pc' = "t_inodes"
    /\ UNCHANGED <<result, tw_events>>
    /\ UNCHANGED outsideTwice

\* scan_inodes: a chunk read completes and process_inode_chunk_staged
\* delivers its inodes by ascending slot; after the last chunk
\* scan_file_extents gets the map of the btree-format forks.
TwiceChunk ==
    /\ pc = "t_inodes"
    /\ \E c \in MayComplete(tw_left, [x \in tw_left |-> SameKey(x)]) :
        /\ Deliver([k \in 1..Cardinality({i \in TwiceInos : ChunkOf(i) = c}) |->
                      [kind |-> "InodeInfo",
                       ino |-> Ascending({i \in TwiceInos : ChunkOf(i) = c})[k]]])
        /\ IF tw_left = {c}
           THEN /\ pc' = "t_extents"
                /\ tw_left' = InosOf({"file_btree", "dir_btree"})
           ELSE /\ pc' = pc
                /\ tw_left' = tw_left \ {c}
    /\ UNCHANGED <<result, tw_image, tw_reader, tw_run>>
    /\ UNCHANGED outsideTwice

\* A scan is over: the second one starts, or both are done.
TwiceRunEnds ==
    IF tw_run = 1
    THEN /\ tw_run' = 2
         /\ tw_left' = {ChunkOf(i) : i \in TwiceInos}
         /\ pc' = "t_inodes"
    ELSE /\ tw_run' = tw_run
         /\ tw_left' = {}
         /\ pc' = "t_done"

\* scan_dir_entries starts: one request per directory extent, sorted by
\* offset; without directory work the scan is over.
TwiceDirPhase ==
    IF InosOf({"dir_extents", "dir_btree"}) = {}
    THEN TwiceRunEnds
    ELSE /\ tw_left' = InosOf({"dir_extents", "dir_btree"})
         /\ pc' = "t_dirs"
         /\ tw_run' = tw_run

\* scan_file_extents: `for (ino, extents) in bmbt_results` takes the next
\* entry of the map, in the map's order: a file's extents are delivered, a
\* directory's are queued as directory work.
TwiceMapEntry ==
    /\ pc = "t_extents"
    /\ IF tw_left = {}
       THEN /\ TwiceDirPhase
            /\ UNCHANGED tw_events
       ELSE \E i \in tw_left :
            /\ IF tw_image[i] = "file_btree"
               THEN Deliver(<<[kind |-> "FileExtentsInfo", ino |-> i]>>)
               ELSE UNCHANGED tw_events
            /\ IF tw_left = {i}
               THEN TwiceDirPhase
               ELSE /\ tw_left' = tw_left \ {i}
                    /\ UNCHANGED <<pc, tw_run>>
    /\ UNCHANGED <<result, tw_image, tw_reader>>
    /\ UNCHANGED outsideTwice

\* scan_dir_entries: the read of a directory extent completes and the
\* entries of its block are delivered with the directory as parent.
TwiceDirBuffer ==
    /\ pc = "t_dirs"
    /\ \E i \in MayComplete(tw_left, [x \in tw_left |-> DirOffset(x)]) :
        /\ Deliver(<<[kind |-> "DirEntryInfo", ino |-> i]>>)
        /\ IF tw_left = {i}
           THEN TwiceRunEnds
           ELSE /\ tw_left' = tw_left \ {i}
                /\ UNCHANGED <<pc, tw_run>>
    /\ UNCHANGED <<result, tw_image, tw_reader>>
    /\ UNCHANGED outsideTwice

NextTwice ==
    \/ TwiceStart
    \/ TwiceChunk
    \/ TwiceMapEntry
    \/ TwiceDirBuffer

SpecTwice == InitTwice /\ [][NextTwice]_vars

\* The events of scan r without those of kind `kind`.
Without(r, kind) == SelectSeq(tw_events[r], LAMBDA e : e.kind # kind)

\* C12: two scans over the same image deliver the same sequence of events
\* in the same order, whatever the iteration order of the map of bmbt
\* results and whatever order the reader completes batched reads in.
C12_SameEventsTwice ==
    pc = "t_done" => tw_events[1] = tw_events[2]

\* C12, what holds: on the sequential default reader the two scans differ
\* at most in the order of the FileExtentsInfo events.
C12_DefaultReaderSameButExtents ==
    (pc = "t_done" /\ tw_reader = "default") =>
        Without(1, "FileExtentsInfo") = Without(2, "FileExtentsInfo")

\* C12: on the sequential default reader two scans of an image with two
\* btree-format files delivered their extents in different orders.
C12_FileExtentsSwapped ==
    /\ pc = "t_done"
    /\ tw_reader = "default"
    /\ Cardinality(InosOf({"file_btree"})) = 2
    /\ tw_events[1] # tw_events[2]


\* ------------------------------------------------------------------------
\* The callback scan (src/src/scan.rs) with inode numbers: which inode an
\* InodeFound reports and which child a DirEntry names.  Every inode of the
\* image is allocated, every directory entry names one of them, every read
\* succeeds and the callback returns Continue.  What an inode is and what
\* a directory entry names is read off the image when the scan gets there.
\* ------------------------------------------------------------------------

\* Allocation groups of the image.
TreeAgs == 2

\* Allocated inodes of one allocation group.
TreeAgInodes == 2

TreeInos == 1..(TreeAgs * TreeAgInodes)

\* The entries of every directory: ".", ".." and one named entry.
TreeNames == <<".", "..", "x">>

InitTree ==
    /\ pc = "k_new"
    /\ Fresh

\* run_scan_inner after the superblock: the loop over the groups starts.
TreeStart ==
    /\ pc = "k_new"
    /\ pc' = "k_inodes"
    /\ tr_ag' = 0
    /\ tr_slot' = 1
    /\ UNCHANGED <<result, tr_work, tr_dir, tr_entry, tr_found, tr_named, tr_ahead, tr_last>>
    /\ UNCHANGED outsideTree

\* A scan that ends with the first allocation group.
TreeAfterAgOnlyFirst ==
    /\ pc' = "k_done"
    /\ result' = "Ok"
    /\ UNCHANGED <<tr_ag, tr_slot>>

\* scan_ag returned: `for agno in 0..ctx.ag_count` goes to the next group,
\* or the scan returns Ok.
TreeAfterAg ==
    IF tr_ag + 1 < TreeAgs
    THEN /\ pc' = "k_inodes"
         /\ tr_ag' = tr_ag + 1
         /\ tr_slot' = 1
         /\ result' = result
    ELSE /\ pc' = "k_done"
         /\ result' = "Ok"
         /\ UNCHANGED <<tr_ag, tr_slot>>

\* process_inode_chunk goes to the next inode of the group; after the last
\* one scan_ag sweeps the directories it has queued, if any.
TreeAfterInode(work) ==
    IF tr_slot < TreeAgInodes
    THEN /\ pc' = "k_inodes"
         /\ tr_slot' = tr_slot + 1
         /\ UNCHANGED <<result, tr_ag>>
    ELSE IF work # {}
    THEN /\ pc' = "k_sweep"
         /\ UNCHANGED <<result, tr_ag, tr_slot>>
    ELSE TreeAfterAg

\* process_inode_chunk: the next inode of the group is reported; a
\* shortform directory is decoded at once, a directory in extents or btree
\* format is queued for the sweep.
TreeInode ==
    /\ pc = "k_inodes"
    /\ LET ino == tr_ag * TreeAgInodes + tr_slot IN
       \E kind \in {"file", "dir_local", "dir_queued"} :
        /\ tr_found' = tr_found \cup {ino}
        /\ tr_last' = [kind |-> "InodeFound", ino |-> ino, name |-> ""]
        /\ tr_work' = IF kind = "dir_queued" THEN tr_work \cup {ino} ELSE tr_work
        /\ IF kind = "dir_local"
           THEN /\ pc' = "k_shortform"
                /\ tr_dir' = ino
                /\ tr_entry' = 1
                /\ UNCHANGED <<result, tr_ag, tr_slot>>
           ELSE /\ TreeAfterInode(tr_work')
                /\ UNCHANGED <<tr_dir, tr_entry>>
    /\ UNCHANGED <<tr_named, tr_ahead>>
    /\ UNCHANGED outsideTree

\* phase2_dir_sweep: the read of a queued directory's blocks completes.
TreeSweep ==
    /\ pc = "k_sweep"
    /\ \E d \in tr_work :
        /\ tr_work' = tr_work \ {d}
        /\ tr_dir' = d
    /\ tr_entry' = 1
    /\ pc' = "k_block"
    /\ UNCHANGED <<result, tr_ag, tr_slot, tr_found, tr_named, tr_ahead, tr_last>>
    /\ UNCHANGED outsideTree

\* parse_shortform_dir / parse_dir_data_block: the next entry of the
\* directory is delivered: "." names the directory, ".." and the named
\* entry an inode of the image.
TreeDirEntry ==
    /\ pc \in {"k_shortform", "k_block"}
    /\ \E child \in IF tr_entry = 1 THEN {tr_dir} ELSE TreeInos :
        /\ tr_last' = [kind |-> "DirEntry", ino |-> child, name |-> TreeNames[tr_entry]]
        /\ tr_named' = IF tr_entry = 3 THEN tr_named \cup {child} ELSE tr_named
        /\ tr_ahead' = (tr_ahead \/ (tr_entry = 3 /\ child \notin tr_found))
    /\ IF tr_entry < Len(TreeNames)
       THEN /\ tr_entry' = tr_entry + 1
            /\ UNCHANGED <<pc, result, tr_ag, tr_slot, tr_dir>>
       ELSE /\ tr_entry' = 0
            /\ tr_dir' = 0
            /\ IF pc = "k_shortform"
               THEN TreeAfterInode(tr_work)
               ELSE IF tr_work # {}
               THEN pc' = "k_sweep" /\ UNCHANGED <<result, tr_ag, tr_slot>>
               ELSE TreeAfterAg
    /\ UNCHANGED <<tr_work, tr_found>>
    /\ UNCHANGED outsideTree

NextTree ==
    \/ TreeStart
    \/ TreeInode
    \/ TreeSweep
    \/ TreeDirEntry

SpecTree == InitTree /\ [][NextTree]_vars

LeastRecordNext ==
    (pc = "chunks" /\ pc' = "slot") => \A j \in pending : rec_idx' <= j

\* process_inode_chunk walks the slots of its chunk upwards.
NextSlotIsHigher ==
    (pc = "slot" /\ pc' = "slot") => (rec_idx' = rec_idx /\ slot' = slot + 1)

\* C14: within the inode scan of one group the InodeFound events come in
\* the order of the inobt records sorted by starting inode, and by ascending
\* slot within a record, whatever order the reader completes the chunk
\* reads in.
C14_RecordThenSlotOrder ==
    [][LeastRecordNext /\ NextSlotIsHigher]_vars

\* C14, what holds: within one record the inodes are delivered by ascending
\* slot.
C14_SlotsAscending ==
    [][NextSlotIsHigher]_vars

\* C14: process_inode_chunk runs on the chunk of a record while the chunk of
\* an earlier record of the sorted sequence is still to be completed.
C14_LaterRecordFirst ==
    /\ pc = "slot"
    /\ \E j \in pending : j < rec_idx


\* ------------------------------------------------------------------------
\* The directory sweep over the data blocks of one directory
\* (phase2_dir_sweep, src/src/scan.rs): the directory's data is a run of
\* directory blocks of dir_blk_fsblocks filesystem blocks each, every
\* directory block holds one used entry, and the extent list cuts the run
\* into extents at any filesystem-block boundary.  Every read succeeds in
\* full.
\* ------------------------------------------------------------------------

\* The largest sb_dirblklog.
MaxDirBlkLog == 1

\* Directory blocks of the directory.
MaxDirBlocks == 3

RECURSIVE Pow2(_)
Pow2(n) == IF n = 0 THEN 1 ELSE 2 * Pow2(n - 1)

\* FsContext::dir_blk_fsblocks: 1 << dir_blk_log.
dir_blk_fsblocks(log) == Pow2(log)

\* The filesystem blocks of the directory's data, by logical number.
SweepBlocks == sw_count * dir_blk_fsblocks(sw_log)

\* The end of the extent that starts at logical block `start`.
ExtentEnd(start) ==
    LET later == {c \in sw_cuts : c > start}
    IN IF later = {} THEN SweepBlocks
       ELSE CHOOSE c \in later : \A d \in later : c <= d

\* The directory blocks the on_complete of phase2_dir_sweep decodes from the
\* buffer of the extent [start, end): it steps through the buffer by
\* dir_blk_size while a whole directory block fits, and
\* parse_dir_data_block delivers the entries of a chunk that starts with a
\* data-block magic, that is, at the start of a directory block; any other
\* chunk is passed over.
RECURSIVE DecodeBuffer(_, _, _)
DecodeBuffer(start, end, off) ==
    LET d == dir_blk_fsblocks(sw_log) IN
    IF off + d <= end - start
    THEN (IF (start + off) % d = 0 THEN <<(start + off) \div d>> ELSE <<>>)
         \o DecodeBuffer(start, end, off + d)
    ELSE <<>>

InitSweep ==
    /\ pc = "w_new"
    /\ Fresh

\* The directory: its block multiplier, its size and its extent layout.
SweepStart ==
    /\ pc = "w_new"
    /\ \E log \in 0..MaxDirBlkLog, count \in 1..MaxDirBlocks :
        /\ sw_log' = log
        /\ sw_count' = count
        /\ \E cuts \in SUBSET (1..(count * dir_blk_fsblocks(log) - 1)) : sw_cuts' = cuts
    /\ pc' = "w_sweep"
    /\ UNCHANGED <<result, sw_pos, sw_emitted>>
    /\ UNCHANGED outsideSweep

\* The read of the next extent completes and its buffer is decoded; after
\* the last extent the batch returns Ok.
SweepExtent ==
    /\ pc = "w_sweep"
    /\ sw_emitted' = sw_emitted \o DecodeBuffer(sw_pos, ExtentEnd(sw_pos), 0)
    /\ sw_pos' = ExtentEnd(sw_pos)
    /\ IF ExtentEnd(sw_pos) = SweepBlocks
       THEN pc' = "w_done" /\ result' = "Ok"
       ELSE UNCHANGED <<pc, result>>
    /\ UNCHANGED <<sw_log, sw_count, sw_cuts>>
    /\ UNCHANGED outsideSweep

NextSweep ==
    \/ SweepStart
    \/ SweepExtent

SpecSweep == InitSweep /\ [][NextSweep]_vars

\* How often the entry of directory block b was delivered.
Delivered(b) == Cardinality({k \in 1..Len(sw_emitted) : sw_emitted[k] = b})

\* C15: every used entry of the directory's data blocks yields exactly one
\* DirEntry, for every directory-block multiplier and every layout of the
\* directory's extents.
C15_EachEntryOnce ==
    pc = "w_done" => \A b \in 0..(sw_count - 1) : Delivered(b) = 1

\* C15, what holds: no entry is delivered twice, and with dir_blk_log = 0
\* none is dropped.
C15_NeverTwiceAndOnceForLogZero ==
    /\ \A b \in 0..(sw_count - 1) : Delivered(b) <= 1
    /\ (pc = "w_done" /\ sw_log = 0) => \A b \in 0..(sw_count - 1) : Delivered(b) = 1

\* C15: the sweep of a directory whose blocks span two filesystem blocks
\* has ended without the entry of a directory block that an extent boundary
\* cuts in two.
C15_EntryOfSplitBlockDropped ==
    /\ pc = "w_done"
    /\ sw_log = 1
    /\ \E b \in 0..(sw_count - 1) :
        /\ Delivered(b) = 0
        /\ (b * dir_blk_fsblocks(sw_log) + 1) \in sw_cuts


\* ------------------------------------------------------------------------
\* The address arithmetic of FsContext (src/src/xfs/superblock.rs) and of
\* the extent records (src/src/xfs/extent.rs), applied to drawn inputs.  The
\* source computes in u64 and u32; the model keeps the proportions with
\* words of WordBits bits and half words of WordBits / 2 bits.
\* ------------------------------------------------------------------------

\* The bits of a u64 of the source, scaled.
WordBits == 6

\* The bits of a u32.
HalfBits == WordBits \div 2

\* The largest sb_inopblog and sb_blocklog of a drawn context.
MaxInopBlog == 1
MaxBlockLog == 1

\* The bits of the start block that an extent record keeps in its first
\* word (9 in the source) and the bits of its block count (21).
RecHiBits == 1
RecCountBits == 2

Word == Pow2(WordBits)
Half == Pow2(HalfBits)

\* x << s and x >> s on a u64, `x as u32`, and x | y.
Shl(x, s) == (x * Pow2(s)) % Word
Shr(x, s) == x \div Pow2(s)
AsU32(x) == x % Half

RECURSIVE BitOr(_, _)
BitOr(x, y) ==
    IF x = 0 THEN y
    ELSE IF y = 0 THEN x
    ELSE (IF x % 2 = 1 \/ y % 2 = 1 THEN 1 ELSE 0) + 2 * BitOr(x \div 2, y \div 2)

\* FsContext::ino_to_agno with the shift of the block part alone.
ino_to_agno_block_shift(ctx, ino) ==
    AsU32(Shr(ino, ctx.ag_blk_log))

\* FsContext::ino_to_agno, ino_to_agino and agino_to_ino.
ino_to_agno(ctx, ino) ==
    AsU32(Shr(ino, ctx.inop_blog + ctx.ag_blk_log))

ino_to_agino(ctx, ino) ==
    AsU32(ino % Pow2(ctx.inop_blog + ctx.ag_blk_log))

agino_to_ino(ctx, a, agino) ==
    BitOr(Shl(a, ctx.inop_blog + ctx.ag_blk_log), agino)

\* FsContext::ag_block_to_byte.
ag_block_to_byte(ctx, a, agblock) ==
    Shl((a * ctx.ag_blocks + agblock) % Word, ctx.block_log)

\* fsblock_to_ag: (agno, agblock).
fsblock_to_ag(ctx, fsblock) ==
    <<AsU32(Shr(fsblock, ctx.ag_blk_log)), AsU32(fsblock % Pow2(ctx.ag_blk_log))>>

\* The packed block number shifted as it is, without unpacking.
fsblock_to_byte_shift_only(ctx, fsblock) ==
    Shl(fsblock, ctx.block_log)

\* fsblock_to_byte: unpack, then ag_block_to_byte.
fsblock_to_byte(ctx, fsblock) ==
    ag_block_to_byte(ctx, fsblock_to_ag(ctx, fsblock)[1], fsblock_to_ag(ctx, fsblock)[2])

\* pack(a, b) = (a << ag_blk_log) | b.
pack(ctx, a, agblock) ==
    BitOr(Shl(a, ctx.ag_blk_log), agblock)

\* The start block of a record, read from its second word alone.
RecordStartBlockLowWord(l0, l1) ==
    Shr(l1, RecCountBits)

\* The start block of a record: ((l0 & 0x1FF) << 43) | (l1 >> 21).
RecordStartBlock(l0, l1) ==
    BitOr(Shl(l0 % Pow2(RecHiBits), WordBits - RecCountBits), Shr(l1, RecCountBits))

\* XfsBmbtRec::unpack_with_context.
unpack_with_context(ctx, l0, l1) ==
    [is_unwritten   |-> Shr(l0, WordBits - 1) # 0,
     logical_offset |-> Shr(l0, RecHiBits) % Pow2(WordBits - 1 - RecHiBits),
     ag_number      |-> fsblock_to_ag(ctx, RecordStartBlock(l0, l1))[1],
     ag_block       |-> fsblock_to_ag(ctx, RecordStartBlock(l0, l1))[2],
     block_count    |-> l1 % Pow2(RecCountBits)]

\* The documented packing of an extent into the two words of a record:
\* flag, logical offset, start block pack(ag_number, ag_block), block count.
encode(ctx, e) ==
    LET fsblock == pack(ctx, e.ag_number, e.ag_block) IN
    <<BitOr(BitOr(Shl(IF e.is_unwritten THEN 1 ELSE 0, WordBits - 1),
                  Shl(e.logical_offset, RecHiBits)),
            Shr(fsblock, WordBits - RecCountBits)),
      BitOr(Shl(fsblock % Pow2(WordBits - RecCountBits), RecCountBits),
            e.block_count)>>

\* The drawn contexts: the fields the arithmetic reads.
Contexts ==
    {c \in [inop_blog : 0..MaxInopBlog, ag_blk_log : 0..HalfBits,
            ag_blocks : 1..Half, block_log : 0..MaxBlockLog] :
        c.ag_blocks <= Pow2(c.ag_blk_log)}

\* The directory sweeps of the source.
Sweeps == {"scan", "scan_common", "staged", "orchestrator"}

\* phase2_dir_sweep: byte_offset = range.start_block << ctx.block_log.
fsblock_shifted(ctx, fsblock) ==
    Shl(fsblock, ctx.block_log)

\* The byte offset at which a sweep reads an extent that starts at
\* filesystem block `fsblock`: scan.rs and scan_common.rs call
\* fsblock_to_byte, staged.rs calls Extent::start_byte on the unpacked
\* extent, orchestrator.rs shifts the start block of its read range.
SweepOffset(sweep, ctx, fsblock) ==
    CASE sweep \in {"scan", "scan_common"} -> fsblock_to_byte(ctx, fsblock)
      [] sweep = "staged" ->
           ag_block_to_byte(ctx, fsblock_to_ag(ctx, fsblock)[1], fsblock_to_ag(ctx, fsblock)[2])
      [] sweep = "orchestrator" -> fsblock_shifted(ctx, fsblock)

\* The request lists handed to coalesced_read_batch.
RequestLists == {"inobt_level", "inode_chunks", "bmbt_level", "dir_extents"}

\* Vec::sort on numbers, by insertion.
RECURSIVE sort_by_key(_)
sort_by_key(s) ==
    IF s = <<>> THEN <<>>
    ELSE LET rest == sort_by_key(Tail(s))
             low  == SelectSeq(rest, LAMBDA x : x <= Head(s))
             high == SelectSeq(rest, LAMBDA x : x > Head(s))
         IN  low \o <<Head(s)>> \o high

\* The offsets of the requests of a list built from `keys`:
\* the child blocks of an inobt level are sorted and turned into offsets,
\* the inobt records are sorted by start_ino and each chunk starts at block
\* start_ino / inodes_per_block, the pending bmbt blocks are sorted by
\* their packed block number and turned into offsets, and the requests of
\* directory extents are sorted by their offsets.
RequestOffsets(list, ctx, a, keys) ==
    CASE list = "inobt_level" ->
           [i \in DOMAIN keys |-> ag_block_to_byte(ctx, a, sort_by_key(keys)[i])]
      [] list = "inode_chunks" ->
           [i \in DOMAIN keys |->
               ag_block_to_byte(ctx, a, sort_by_key(keys)[i] \div Pow2(ctx.inop_blog))]
      [] list = "bmbt_level" ->
           [i \in DOMAIN keys |-> fsblock_to_byte(ctx, sort_by_key(keys)[i])]
      [] list = "dir_extents" ->
           sort_by_key([i \in DOMAIN keys |-> fsblock_to_byte(ctx, keys[i])])

InitGeom ==
    /\ pc = "g_new"
    /\ Fresh

\* The inputs are drawn: a context and the arguments of one computation.
GeomDraw ==
    /\ pc = "g_new"
    /\ pc' = "g_drawn"
    /\ \E c \in Contexts :
        \/ \E a \in 0..(Half - 1), i \in 0..(Half - 1) :
            /\ c.ag_blocks = 1 /\ c.block_log = 0
            /\ g_op' = "inode"
            /\ g_ctx' = c
            /\ g_in' = <<a, i>>
        \/ \E a \in 0..(Half - 1), agblock \in 0..(Half - 1) :
            /\ c.inop_blog = 0
            /\ g_op' = "block"
            /\ g_ctx' = c
            /\ g_in' = <<a, agblock>>
        \/ \E sweep \in Sweeps, a \in 0..(Half - 1), agblock \in 0..(c.ag_blocks - 1) :
            /\ c.inop_blog = 0
            /\ g_op' = sweep
            /\ g_ctx' = c
            /\ g_in' = <<a, agblock>>
        \/ \E l0 \in 0..(Word - 1), l1 \in 0..(Word - 1) :
            /\ c.inop_blog = 0 /\ c.ag_blocks = 1 /\ c.block_log = 0
            /\ g_op' = "record"
            /\ g_ctx' = c
            /\ g_in' = <<l0, l1>>
        \/ \E list \in RequestLists, a \in 0..1,
              k1 \in 0..(2 * Half - 1), k2 \in 0..(2 * Half - 1) :
            /\ c.block_log = 0
            /\ list # "inode_chunks" => c.inop_blog = 0
            /\ g_op' = list
            /\ g_ctx' = c
            /\ g_in' = <<a, <<k1, k2>>>>
    /\ UNCHANGED <<result, g_out>>
    /\ UNCHANGED outsideGeom

\* What a computation hands back.
GeomReturn(out) ==
    /\ pc' = "g_done"
    /\ g_out' = out
    /\ UNCHANGED <<result, g_op, g_ctx, g_in>>
    /\ UNCHANGED outsideGeom

\* agino_to_ino, then ino_to_agno and ino_to_agino of the result.
GeomInode ==
    /\ pc = "g_drawn"
    /\ g_op = "inode"
    /\ LET ino == agino_to_ino(g_ctx, g_in[1], g_in[2])
       IN GeomReturn(<<ino_to_agno(g_ctx, ino), ino_to_agino(g_ctx, ino)>>)

\* fsblock_to_byte of the packed block, and ag_block_to_byte of its parts.
GeomBlock ==
    /\ pc = "g_drawn"
    /\ g_op = "block"
    /\ GeomReturn(<<fsblock_to_byte(g_ctx, pack(g_ctx, g_in[1], g_in[2])),
                    ag_block_to_byte(g_ctx, g_in[1], g_in[2])>>)

\* A sweep builds the read request of an extent that starts at the packed
\* block.
GeomSweep ==
    /\ pc = "g_drawn"
    /\ g_op \in Sweeps
    /\ GeomReturn(<<SweepOffset(g_op, g_ctx, pack(g_ctx, g_in[1], g_in[2]))>>)

\* A record is decoded and the extent packed again.
GeomRecord ==
    /\ pc = "g_drawn"
    /\ g_op = "record"
    /\ GeomReturn(encode(g_ctx, unpack_with_context(g_ctx, g_in[1], g_in[2])))

\* A scan builds the request list of a batch from two keys.
GeomRequests ==
    /\ pc = "g_drawn"
    /\ g_op \in RequestLists
    /\ GeomReturn(RequestOffsets(g_op, g_ctx, g_in[1], g_in[2]))

NextGeom ==
    \/ GeomDraw
    \/ GeomInode
    \/ GeomBlock
    \/ GeomSweep
    \/ GeomRecord
    \/ GeomRequests

SpecGeom == InitGeom /\ [][NextGeom]_vars


\* ------------------------------------------------------------------------
\* Claims about the address arithmetic.
\* ------------------------------------------------------------------------

\* i is an AG-relative inode of the drawn geometry: it lies in the low
\* inop_blog + ag_blk_log bits.
IsAgino(i) ==
    i < Pow2(g_ctx.inop_blog + g_ctx.ag_blk_log)

\* AG-relative inode numbers of the drawn geometry fit their 32-bit type.
AginoBitsFit ==
    g_ctx.inop_blog + g_ctx.ag_blk_log <= HalfBits

\* C16 as stated: for every context, AG number a and AG-relative inode i,
\* ino_to_agno(agino_to_ino(a, i)) = a and
\* ino_to_agino(agino_to_ino(a, i)) = i.
C16_InodeRoundTripAnyContext ==
    (pc = "g_done" /\ g_op = "inode" /\ IsAgino(g_in[2])) => g_out = g_in

\* C16: for every context whose inop_blog + ag_blk_log is at most the width
\* of an AG-relative inode number, every AG number a and AG-relative inode
\* i, ino_to_agno(agino_to_ino(a, i)) = a and
\* ino_to_agino(agino_to_ino(a, i)) = i.
C16_InodeRoundTrip ==
    (pc = "g_done" /\ g_op = "inode" /\ IsAgino(g_in[2]) /\ AginoBitsFit) =>
        g_out = g_in

\* C16: a round trip through an inode number with AG and inode part both
\* set, in a geometry with inode bits in the block.
C16_RoundTripDone ==
    /\ pc = "g_done"
    /\ g_op = "inode"
    /\ IsAgino(g_in[2])
    /\ AginoBitsFit
    /\ g_ctx.inop_blog > 0
    /\ g_in[1] > 0
    /\ g_in[2] > 0
    /\ g_out = g_in

UnpackedOffset ==
    ag_block_to_byte(g_ctx, g_in[1], g_in[2])

\* C18: every read of a directory sweep starts at
\* ag_block_to_byte(agno, agblock) of the unpacked start block; no sweep
\* takes fsblock << block_log, whatever ag_blocks is.
C18_SweepsUnpack ==
    (pc = "g_done" /\ g_op \in Sweeps) => g_out[1] = UnpackedOffset

\* C18, what holds: the sweeps of scan.rs, scan_common.rs and staged.rs
\* read at the unpacked offset.
C18_BatchSweepsUnpack ==
    (pc = "g_done" /\ g_op \in Sweeps \ {"orchestrator"}) => g_out[1] = UnpackedOffset

\* C18: the sweep of orchestrator.rs has computed another offset than the
\* unpacked one, for an extent beyond AG 0 with ag_blocks not a power of
\* two.
C18_OrchestratorShifts ==
    /\ pc = "g_done"
    /\ g_op = "orchestrator"
    /\ g_ctx.ag_blocks = 3
    /\ g_in[1] > 0
    /\ g_out[1] # UnpackedOffset

ExtentOf(r) ==
    dir_work[r.item].extents[r.ext]

\* C20: no read request is issued for an extent that is unwritten or has
\* block count 0: every request of a directory sweep is for an extent with
\* block_count > 0 that is not unwritten.
C20_RequestsOnlyForDataExtents ==
    \A r \in dir_pending :
        /\ r.item \in DOMAIN dir_work
        /\ r.ext \in DOMAIN dir_work[r.item].extents
        /\ ExtentOf(r) = "data"

\* C20: the batch of a sweep is under way with a request for the data extent
\* of one directory, while another queued directory has an unwritten or
\* empty extent, for which there is none.
C20_ExtentPassedOver ==
    /\ dir_pending # {}
    /\ \E w \in DOMAIN dir_work : \E k \in DOMAIN dir_work[w].extents :
        /\ dir_work[w].extents[k] \in {"unwritten", "empty"}
        /\ [item |-> w, ext |-> k] \notin dir_pending


\* ------------------------------------------------------------------------
\* The extents the phased API hands to its callbacks for one allocation
\* group (src/src/staged.rs: process_inode_chunk_staged and
\* AgExtentPhase::scan_file_extents; src/src/xfs/extent.rs:
\* parse_extent_list), with inode numbers and the fields of each extent.
\* Every callback returns Continue and every read succeeds; what an inode or
\* a bmbt leaf holds is chosen when it is read.
\* ------------------------------------------------------------------------

\* Allocated inodes of the group.
FxInodes == 2

\* Extent records that fit the data fork of an inode or a bmbt leaf.
FxRecords == 2

\* The size of the device in filesystem blocks.
FxDeviceBlocks == 1

\* The extent records a fork or leaf may hold: any start block up to the
\* end of the device, a block count of 0 or 1, written or unwritten.
DiskExtents ==
    [start_block : 0..FxDeviceBlocks, block_count : 0..1, is_unwritten : BOOLEAN]

\* The lists of at most n extent records.
ExtentListsUpTo(n) == UNION {[1..k -> DiskExtents] : k \in 0..n}

\* S_IFMT of di_mode as the scan tells it apart, and di_format.
InodeModes == {"reg", "dir", "other"}
InodeFormats == {"local", "extents", "btree"}

\* The inodes a chunk may hold: the record area of an extents-format fork
\* is full, di_nextents says how many of its records count.
DiskInodes ==
    {d \in [mode : InodeModes, format : InodeFormats,
            nextents : 0..(FxRecords + 1), recs : ExtentListsUpTo(FxRecords)] :
        /\ d.format = "extents" => Len(d.recs) = FxRecords
        /\ d.format # "extents" => d.recs = <<>> /\ d.nextents = 0}

NoInode == [mode |-> "none", format |-> "none", nextents |-> 0, recs |-> <<>>]
NoExtents == [some |-> FALSE, list |-> <<>>]
NoFxEvent == [kind |-> "none", ino |-> 0, extents |-> NoExtents]

\* parse_extent_list: the first nextents records of the fork, or a failure
\* when the fork is too short for them.
parse_extent_list(recs, nextents) ==
    IF nextents > Len(recs)
    THEN [err |-> "Parse", extents |-> <<>>]
    ELSE [err |-> "Ok", extents |-> SubSeq(recs, 1, nextents)]

\* Inline extents attached to every inode in extents format.
InlineExtentsOfAnyMode(d) ==
    IF d.format = "extents" /\ d.nextents > 0
    THEN [some |-> TRUE, list |-> parse_extent_list(d.recs, d.nextents).extents]
    ELSE NoExtents

\* process_inode_chunk_staged: the `extents` of InodeInfo.
InlineExtents(d) ==
    IF d.mode = "reg" /\ d.format = "extents" /\ d.nextents > 0
    THEN [some |-> TRUE, list |-> parse_extent_list(d.recs, d.nextents).extents]
    ELSE NoExtents

\* The parse of the inline extents that process_inode_chunk_staged or
\* handle_directory_staged makes fails.
InlineParseFails(d) ==
    /\ d.format = "extents"
    /\ (d.mode = "dir" \/ (d.mode = "reg" /\ d.nextents > 0))
    /\ parse_extent_list(d.recs, d.nextents).err # "Ok"

\* No result of the walk is taken for a directory's.
NamesNoDirectory(i) == FALSE

\* scan_file_extents: dir_inos.contains(&ino).
NamesDirectory(i) == i \in fx_btree_dirs

InitExtents ==
    /\ pc = "x_new"
    /\ Fresh

\* scan_inodes starts on the group's chunk.
FxStart ==
    /\ pc = "x_new"
    /\ pc' = "x_slot"
    /\ fx_slot' = 1
    /\ UNCHANGED <<result, fx_inode, fx_event, fx_btree_files, fx_btree_dirs,
                   fx_results, fx_left, fx_reported>>
    /\ UNCHANGED outsideExtents

\* One iteration of process_inode_chunk_staged on an allocated inode, up
\* to the callback: the core is parsed, the inline extents of a regular
\* file are, and the callback gets the InodeInfo.
FxInode ==
    /\ pc = "x_slot"
    /\ \E d \in DiskInodes :
        /\ fx_inode' = d
        /\ IF d.mode = "reg" /\ InlineParseFails(d)
           THEN /\ pc' = "x_done"
                /\ result' = "Parse"
                /\ fx_event' = NoFxEvent
           ELSE /\ fx_event' = [kind |-> "InodeInfo", ino |-> fx_slot,
                                extents |-> InlineExtents(d)]
                /\ pc' = "x_called"
                /\ UNCHANGED result
    /\ UNCHANGED <<fx_slot, fx_btree_files, fx_btree_dirs, fx_results, fx_left,
                   fx_reported>>
    /\ UNCHANGED outsideExtents

\* The rest of the iteration: a directory goes to handle_directory_staged,
\* a btree-format file is queued, and the loop goes to the next inode.
FxQueue ==
    /\ pc = "x_called"
    /\ IF fx_inode.mode = "dir" /\ InlineParseFails(fx_inode)
       THEN /\ pc' = "x_done"
            /\ result' = "Parse"
            /\ UNCHANGED <<fx_slot, fx_btree_files, fx_btree_dirs>>
       ELSE /\ fx_btree_dirs' =
                 IF fx_inode.mode = "dir" /\ fx_inode.format = "btree"
                 THEN fx_btree_dirs \cup {fx_slot} ELSE fx_btree_dirs
            /\ fx_btree_files' =
                 IF fx_inode.mode = "reg" /\ fx_inode.format = "btree"
                 THEN fx_btree_files \cup {fx_slot} ELSE fx_btree_files
            /\ fx_slot' = fx_slot + 1
            /\ pc' = IF fx_slot = FxInodes THEN "x_bmbt" ELSE "x_slot"
            /\ UNCHANGED result
    /\ fx_inode' = NoInode
    /\ fx_event' = NoFxEvent
    /\ UNCHANGED <<fx_results, fx_left, fx_reported>>
    /\ UNCHANGED outsideExtents

\* scan_file_extents: collect_all_bmbt_extents walks the bmbt of the queued
\* directories and files; its map has an entry for each inode whose leaves
\* gave at least one record.
FxBmbtWalk ==
    /\ pc = "x_bmbt"
    /\ \E keys \in SUBSET (fx_btree_dirs \cup fx_btree_files) :
        /\ fx_results' = keys
        /\ fx_left' = keys
    /\ pc' = "x_map"
    /\ UNCHANGED <<result, fx_slot, fx_inode, fx_event, fx_btree_files,
                   fx_btree_dirs, fx_reported>>
    /\ UNCHANGED outsideExtents

\* scan_file_extents: `for (ino, extents) in bmbt_results`, in the map's
\* order: an empty list is passed over (the walk keeps an entry only for an
\* inode with a record), a directory's list is queued as directory work, a
\* file's is handed to the callback.
FxMapEntry ==
    /\ pc = "x_map"
    /\ IF fx_left = {}
       THEN /\ pc' = "x_done"
            /\ result' = "Ok"
            /\ UNCHANGED <<fx_left, fx_event, fx_reported>>
       ELSE \E i \in fx_left :
            /\ fx_left' = fx_left \ {i}
            /\ UNCHANGED result
            /\ IF NamesDirectory(i)
               THEN UNCHANGED <<pc, fx_event, fx_reported>>
               ELSE \E recs \in ExtentListsUpTo(FxRecords) \ {<<>>} :
                    IF recs = <<>>
                    THEN UNCHANGED <<pc, fx_event, fx_reported>>
                    ELSE /\ fx_event' = [kind |-> "FileExtentsInfo", ino |-> i,
                                         extents |-> [some |-> TRUE, list |-> recs]]
                         /\ fx_reported' = Append(fx_reported, i)
                         /\ pc' = "x_reported"
    /\ UNCHANGED <<fx_slot, fx_inode, fx_btree_files, fx_btree_dirs, fx_results>>
    /\ UNCHANGED outsideExtents

\* The callback returned Continue: the loop takes the next entry.
FxMapNext ==
    /\ pc = "x_reported"
    /\ pc' = "x_map"
    /\ fx_event' = NoFxEvent
    /\ UNCHANGED <<result, fx_slot, fx_inode, fx_btree_files, fx_btree_dirs,
                   fx_results, fx_left, fx_reported>>
    /\ UNCHANGED outsideExtents

NextExtents ==
    \/ FxStart
    \/ FxInode
    \/ FxQueue
    \/ FxBmbtWalk
    \/ FxMapEntry
    \/ FxMapNext

SpecExtents == InitExtents /\ [][NextExtents]_vars


\* ------------------------------------------------------------------------
\* Claims about the extents handed to the callbacks.
\* ------------------------------------------------------------------------

\* The extent has blocks and ends within the device.
SaneExtent(e) ==
    /\ e.block_count > 0
    /\ e.start_block + e.block_count <= FxDeviceBlocks

\* The extents of the event handed over last.
LastExtents ==
    {fx_event.extents.list[k] : k \in DOMAIN fx_event.extents.list}

\* C21: every extent delivered to a callback, in the extents of an
\* InodeFound or in a FileExtents, has block_count > 0 and
\* start_block + block_count within the device size in blocks.
C21_DeliveredExtentsSane ==
    \A e \in LastExtents : SaneExtent(e)

\* C21: an inode was reported with an inline extent of block count 0, and
\* next to it one that ends beyond the device.
C21_EmptyExtentDelivered ==
    /\ fx_event.kind = "InodeInfo"
    /\ \E e \in LastExtents : e.block_count = 0
    /\ \E e \in LastExtents : e.start_block + e.block_count > FxDeviceBlocks

\* The FileExtentsInfo events name each inode of S once and no other.
ReportedExactly(S) ==
    /\ {fx_reported[k] : k \in DOMAIN fx_reported} = S
    /\ Len(fx_reported) = Cardinality(S)

At(buf, o) == buf[o + 1]

\* u32::from_be_bytes / u64::from_be_bytes of the n bytes at offset start.
RECURSIVE from_be_bytes(_, _, _)
from_be_bytes(buf, start, n) ==
    IF n = 0 THEN 0
    ELSE from_be_bytes(buf, start, n - 1) * 256 + At(buf, start + n - 1)

\* to_be_bytes: the n bytes of v, most significant first.
RECURSIVE to_be_bytes(_, _)
to_be_bytes(v, n) ==
    IF n = 0 THEN <<>>
    ELSE Append(to_be_bytes(v \div 256, n - 1), v % 256)

\* Entries of a shortform directory next to "." and "..".
SfMaxEntries == 2

\* Bytes that may be missing at the end of a fork.
SfMaxCut == 5

\* Inode numbers on disk: one of one byte, one of two bytes.
SfInos == {1, 258}

\* Names on disk, as bytes: the empty one and "a".
SfNames == {<<>>, <<97>>}

\* An entry of a shortform directory as it is on disk.
SfEntries == [name : SfNames, ftype : {1, 2}, ino : SfInos]

\* A shortform directory as it is on disk: the header fields and `count`
\* entries.
SfDirs ==
    UNION {[count : {n}, i8count : 0..SfMaxEntries, parent : SfInos,
            entries : [1..n -> SfEntries]] : n \in 0..SfMaxEntries}

\* Width of the inode numbers of a directory: 8 bytes iff i8count > 0.
SfInoSize(d) == IF d.i8count > 0 THEN 8 ELSE 4

\* The bytes of one entry: name length, 2-byte offset, name, the file type
\* if the filesystem has ftype, inode number.
SfEntryBytes(e, ino_size, has_ftype) ==
    <<Len(e.name), 0, 0>> \o e.name
        \o (IF has_ftype THEN <<e.ftype>> ELSE <<>>)
        \o to_be_bytes(e.ino, ino_size)

RECURSIVE SfEntriesBytes(_, _, _)
SfEntriesBytes(es, ino_size, has_ftype) ==
    IF es = <<>> THEN <<>>
    ELSE SfEntryBytes(Head(es), ino_size, has_ftype)
            \o SfEntriesBytes(Tail(es), ino_size, has_ftype)

\* The data fork of a shortform directory: count, i8count, parent, entries.
SfForkBytes(d, has_ftype) ==
    <<d.count, d.i8count>> \o to_be_bytes(d.parent, SfInoSize(d))
        \o SfEntriesBytes(d.entries, SfInoSize(d), has_ftype)

\* FsEvent::DirEntry.
DirEntryEvent(parent_ino, child_ino, name, file_type) ==
    [parent_ino |-> parent_ino, child_ino |-> child_ino, name |-> name,
     file_type |-> file_type]

\* The loop of parse_shortform_dir over the variable-length entries:
\* `left` entries to go from `offset`, `emitted` handed to the callback.
RECURSIVE sf_entries(_, _, _, _, _, _, _)
sf_entries(fork_buf, parent_ino, has_ftype, use_8byte, left, offset, emitted) ==
    IF left = 0 THEN [err |-> "Ok", events |-> emitted]
    ELSE IF offset >= Len(fork_buf) THEN [err |-> "Parse", events |-> emitted]
    ELSE
        LET namelen    == At(fork_buf, offset)
            name_start == offset + 1 + 2
            name_end   == name_start + namelen
            ftype_size == IF has_ftype THEN 1 ELSE 0
            ino_start  == name_end + ftype_size
            ino_size   == IF use_8byte THEN 8 ELSE 4
        IN  IF name_end > Len(fork_buf)
            THEN [err |-> "Parse", events |-> emitted]
            ELSE IF has_ftype /\ name_end >= Len(fork_buf)
            THEN [err |-> "Panic", events |-> emitted]
            ELSE IF ino_start + ino_size > Len(fork_buf)
            THEN [err |-> "Parse", events |-> emitted]
            ELSE sf_entries(fork_buf, parent_ino, has_ftype, use_8byte,
                    left - 1, ino_start + ino_size,
                    Append(emitted,
                        DirEntryEvent(parent_ino,
                            from_be_bytes(fork_buf, ino_start, ino_size),
                            SubSeq(fork_buf, name_start + 1, name_end),
                            IF has_ftype THEN At(fork_buf, name_end) ELSE 0)))

\* The header of the 8-byte variant gives the number of entries.
sf_entry_count_8(fork_buf) == At(fork_buf, 1)

\* parse_shortform_dir: what it returns and the events it hands to the
\* callback, in order.
parse_shortform_dir(fork_buf, parent_ino, has_ftype) ==
    IF Len(fork_buf) < 6 THEN [err |-> "Parse", events |-> <<>>]
    ELSE
        LET i8count   == At(fork_buf, 1)
            use_8byte == i8count > 0
        IN  IF use_8byte /\ Len(fork_buf) < 10
            THEN [err |-> "Parse", events |-> <<>>]
            ELSE
                LET entry_count    == IF use_8byte THEN sf_entry_count_8(fork_buf)
                                      ELSE At(fork_buf, 0)
                    hdr_parent_ino == IF use_8byte THEN from_be_bytes(fork_buf, 2, 8)
                                      ELSE from_be_bytes(fork_buf, 2, 4)
                    hdr_size       == IF use_8byte THEN 10 ELSE 6
                IN  sf_entries(fork_buf, parent_ino, has_ftype, use_8byte,
                        entry_count, hdr_size,
                        << DirEntryEvent(parent_ino, parent_ino, <<46>>, 0),
                           DirEntryEvent(parent_ino, hdr_parent_ino, <<46, 46>>, 0) >>)

InitDecode ==
    /\ pc = "d_new"
    /\ Fresh

\* What a decoder hands back.
DecodeReturn(out) ==
    /\ pc' = "d_done"
    /\ d_out' = out
    /\ UNCHANGED <<result, d_op, d_in>>
    /\ UNCHANGED outsideDecode

\* A shortform directory is drawn: the directory's inode number, whether
\* the filesystem has ftype, the directory on disk, and how many bytes of
\* its fork the buffer lacks.
DrawShortform ==
    /\ pc = "d_new"
    /\ pc' = "d_drawn"
    /\ d_op' = "shortform"
    /\ \E dir \in SfDirs, has_ftype \in BOOLEAN, cut \in 0..SfMaxCut :
        LET bytes == SfForkBytes(dir, has_ftype)
        IN  d_in' = [dir |-> dir, ino |-> 7, has_ftype |-> has_ftype, cut |-> cut,
                     fork_buf |-> SubSeq(bytes, 1, Len(bytes) - cut)]
    /\ UNCHANGED <<result, d_out>>
    /\ UNCHANGED outsideDecode

\* parse_shortform_dir on the drawn fork.
DecodeShortform ==
    /\ pc = "d_drawn"
    /\ d_op = "shortform"
    /\ DecodeReturn(parse_shortform_dir(d_in.fork_buf, d_in.ino, d_in.has_ftype))

\* ------------------------------------------------------------------------
\* Directory data blocks (src/src/xfs/dir/block.rs).
\* ------------------------------------------------------------------------

XFS_DIR2_DATA_MAGIC == 1480864324

XFS_DIR2_BLOCK_MAGIC == 1480864322

XFS_DIR3_DATA_MAGIC == 1480868915

XFS_DIR3_BLOCK_MAGIC == 1480868403

XFS_DIR2_DATA_FREE_TAG == 65535

\* Entries, used or free, of a directory block.
DbMaxItems == 2

\* Units of 8 bytes that the data region may lack at its end.
DbMaxCut == 1

\* Leaf entries of a block-format block.
DbMaxLeaves == 1

data_hdr_size(version) == IF version = "V4" THEN 16 ELSE 64

is_data_block_magic(magic, version) ==
    IF version = "V4"
    THEN magic = XFS_DIR2_DATA_MAGIC \/ magic = XFS_DIR2_BLOCK_MAGIC
    ELSE magic = XFS_DIR3_DATA_MAGIC \/ magic = XFS_DIR3_BLOCK_MAGIC

is_block_format(magic) ==
    magic = XFS_DIR2_BLOCK_MAGIC \/ magic = XFS_DIR3_BLOCK_MAGIC

\* n bytes of value b.
Bytes(n, b) == [k \in 1..n |-> b]

\* (raw_size + 7) & !7
PaddedSize(raw_size) == ((raw_size + 7) \div 8) * 8

\* An entry of a directory block as it is on disk: a used one with its
\* inode number and a name of namelen bytes, or a free one of `length` bytes.
DbItems ==
    [kind : {"used"}, ino : SfInos, namelen : {1, 6}, length : {0}]
    \cup [kind : {"free"}, ino : {0}, namelen : {0}, length : {8, 16}]

\* Bytes a used entry takes: inode number, name length, name, file type if
\* the filesystem has ftype, padding, tag.
DbUsedSize(namelen, has_ftype) ==
    PaddedSize(8 + 1 + namelen + (IF has_ftype THEN 1 ELSE 0) + 2)

\* The bytes of one entry that starts at `offset` of the block.
DbItemBytes(it, offset, has_ftype) ==
    IF it.kind = "free"
    THEN to_be_bytes(XFS_DIR2_DATA_FREE_TAG, 2) \o to_be_bytes(it.length, 2)
            \o Bytes(it.length - 6, 0) \o to_be_bytes(offset, 2)
    ELSE LET used == 8 + 1 + it.namelen + (IF has_ftype THEN 1 ELSE 0)
         IN  to_be_bytes(it.ino, 8) \o <<it.namelen>> \o Bytes(it.namelen, 97)
                \o (IF has_ftype THEN <<2>> ELSE <<>>)
                \o Bytes(DbUsedSize(it.namelen, has_ftype) - used - 2, 0)
                \o to_be_bytes(offset, 2)

RECURSIVE DbItemsBytes(_, _, _)
DbItemsBytes(its, offset, has_ftype) ==
    IF its = <<>> THEN <<>>
    ELSE LET b == DbItemBytes(Head(its), offset, has_ftype)
         IN  b \o DbItemsBytes(Tail(its), offset + Len(b), has_ftype)

\* The magic a block of the kind has under the format version.
DbMagic(kind, version) ==
    CASE kind = "data"  -> IF version = "V4" THEN XFS_DIR2_DATA_MAGIC
                           ELSE XFS_DIR3_DATA_MAGIC
      [] kind = "block" -> IF version = "V4" THEN XFS_DIR2_BLOCK_MAGIC
                           ELSE XFS_DIR3_BLOCK_MAGIC
      [] OTHER          -> 0

\* A directory block: header, the entries without the last 8 * cut bytes,
\* and in block format the leaf entries and the tail {count, stale}.
DbBlockBytes(kind, version, has_ftype, its, cut, leaves) ==
    LET hdr     == to_be_bytes(DbMagic(kind, version), 4)
                       \o Bytes(data_hdr_size(version) - 4, 0)
        entries == DbItemsBytes(its, data_hdr_size(version), has_ftype)
        region  == SubSeq(entries, 1, Len(entries) - 8 * cut)
    IN  hdr \o region
            \o (IF kind = "block"
                THEN Bytes(8 * leaves, 1) \o to_be_bytes(leaves, 4) \o Bytes(4, 0)
                ELSE <<>>)

\* usize::saturating_sub
saturating_sub(a, b) == IF a > b THEN a - b ELSE 0

\* data_end_offset: where the data entries of the block end.
data_end_offset(buf, magic) ==
    IF is_block_format(magic) /\ Len(buf) >= 8
    THEN LET tail_offset == Len(buf) - 8
             leaf_count  == from_be_bytes(buf, tail_offset, 4)
         IN  saturating_sub(tail_offset, leaf_count * 8)
    ELSE Len(buf)

\* What the entry loop has done so far: the events handed to the callback,
\* for each of them the bytes [from, to) its entry takes, and the highest
\* offset read plus one.
DbNothing == [events |-> <<>>, spans |-> <<>>, hi |-> 0]

\* An entry is emitted although its padding and tag may not be there.
DbEmit(acc, ev, from, to, hi) ==
    [events |-> Append(acc.events, ev),
     spans  |-> Append(acc.spans, <<from, to>>),
     hi     |-> hi]

\* The loop of parse_dir_data_block from `offset`.
RECURSIVE dd_entries(_, _, _, _, _, _)
dd_entries(buf, parent_ino, has_ftype, data_end, offset, acc) ==
    IF ~(offset + 6 <= data_end) THEN acc
    ELSE
        LET freetag == from_be_bytes(buf, offset, 2)
        IN  IF freetag = XFS_DIR2_DATA_FREE_TAG
            THEN LET length == from_be_bytes(buf, offset + 2, 2)
                     read   == [acc EXCEPT !.hi = offset + 4]
                 IN  IF length = 0 \/ offset + length > data_end
                     THEN read
                     ELSE dd_entries(buf, parent_ino, has_ftype, data_end,
                                     offset + length, read)
            ELSE IF offset + 9 > data_end
            THEN [acc EXCEPT !.hi = offset + 2]
            ELSE
                LET inumber    == from_be_bytes(buf, offset, 8)
                    namelen    == At(buf, offset + 8)
                    name_start == offset + 9
                    name_end   == name_start + namelen
                    reads_type == has_ftype /\ name_end < data_end
                    ftype      == IF reads_type THEN At(buf, name_end) ELSE 0
                    ftype_size == IF has_ftype THEN 1 ELSE 0
                    raw_size   == 8 + 1 + namelen + ftype_size + 2
                IN  IF name_end > data_end
                    THEN [acc EXCEPT !.hi = offset + 9]
                    ELSE dd_entries(buf, parent_ino, has_ftype, data_end,
                            offset + PaddedSize(raw_size),
                            DbEmit(acc,
                                DirEntryEvent(parent_ino, inumber,
                                    SubSeq(buf, name_start + 1, name_end), ftype),
                                offset, offset + PaddedSize(raw_size),
                                IF reads_type THEN name_end + 1 ELSE name_end))

\* parse_dir_data_block: what it returns, what it hands to the callback
\* and where the data region ends.
parse_dir_data_block(buf, parent_ino, version, has_ftype) ==
    IF Len(buf) < 4
    THEN [err |-> "Parse", data_end |-> 0, run |-> DbNothing]
    ELSE
        LET magic == from_be_bytes(buf, 0, 4)
        IN  IF ~is_data_block_magic(magic, version)
            THEN [err |-> "Ok", data_end |-> Len(buf), run |-> DbNothing]
            ELSE [err |-> "Ok",
                  data_end |-> data_end_offset(buf, magic),
                  run |-> dd_entries(buf, parent_ino, has_ftype,
                                     data_end_offset(buf, magic),
                                     data_hdr_size(version), DbNothing)]

\* A directory block is drawn.
DrawDirBlock ==
    /\ pc = "d_new"
    /\ pc' = "d_drawn"
    /\ d_op' = "dirblock"
    /\ \E kind \in {"data", "block", "other"}, version \in {"V4", "V5"},
          has_ftype \in BOOLEAN, n \in 0..DbMaxItems, cut \in 0..DbMaxCut,
          leaves \in 0..DbMaxLeaves :
        \E its \in [1..n -> DbItems] :
            /\ kind # "block" => leaves = 0
            /\ 8 * cut <= Len(DbItemsBytes(its, 0, has_ftype))
            /\ d_in' = [kind |-> kind, version |-> version, has_ftype |-> has_ftype,
                        items |-> its, cut |-> cut, leaves |-> leaves, ino |-> 7,
                        buf |-> DbBlockBytes(kind, version, has_ftype, its, cut, leaves)]
    /\ UNCHANGED <<result, d_out>>
    /\ UNCHANGED outsideDecode

\* parse_dir_data_block on the drawn block.
DecodeDirBlock ==
    /\ pc = "d_drawn"
    /\ d_op = "dirblock"
    /\ DecodeReturn(parse_dir_data_block(d_in.buf, d_in.ino, d_in.version,
                                         d_in.has_ftype))

\* ------------------------------------------------------------------------
\* The walk of the inode B-tree (src/src/xfs/btree.rs).  Every block has
\* the inobt magic and holds its records and pointers within the buffer,
\* and every read succeeds: what is drawn is bb_level of the blocks.
\* ------------------------------------------------------------------------

\* Levels of an inode B-tree (agi.inobt_level).
IbtMaxLevels == 3

\* Blocks of one level below the root.
IbtMaxBlocks == 2

\* The level a block at `depth` (the root is at depth 1) has in a tree of
\* `level` levels: the AGI level counts from 1, bb_level from 0.
ExpectedLevel(level, depth) == saturating_sub(level, 1) - (depth - 1)

\* bb_level of the blocks of one depth: the expected level or the next.
IbtBlocksAt(expected, most) ==
    UNION {[1..n -> {expected, expected + 1}] : n \in 1..most}

\* bb_level of all blocks of a tree, depth by depth from the root.
RECURSIVE IbtHeaders(_, _)
IbtHeaders(level, depth) ==
    IF ExpectedLevel(level, depth) < 0 THEN {<<>>}
    ELSE {<<b>> \o rest :
            b \in IbtBlocksAt(ExpectedLevel(level, depth),
                              IF depth = 1 THEN 1 ELSE IbtMaxBlocks),
            rest \in IbtHeaders(level, depth + 1)}

\* The leaf level of the walk accepts a block whatever its bb_level is.
LeafLevelOk(blk_level, current_level) == TRUE

\* The check of an interior block: `blk_level as u32 != current_level`.
InteriorLevelOk(blk_level, current_level) == blk_level = current_level

\* The loop `for current_level in (0..root_level).rev()`: the blocks of
\* the level are read in one batch; at level 0 the records are collected.
RECURSIVE ibt_walk(_, _, _)
ibt_walk(hdr, depth, current_level) ==
    IF current_level = 0
    THEN IF \A b \in DOMAIN hdr[depth] : LeafLevelOk(hdr[depth][b], current_level)
         THEN "Ok" ELSE "Parse"
    ELSE IF \A b \in DOMAIN hdr[depth] : InteriorLevelOk(hdr[depth][b], current_level)
         THEN ibt_walk(hdr, depth + 1, current_level - 1)
         ELSE "Parse"

\* collect_inobt_records: what the walk returns.
collect_inobt_records(level, hdr) ==
    LET root_level == saturating_sub(level, 1)
    IN  IF hdr[1][1] # root_level THEN "Parse"
        ELSE IF root_level = 0 THEN "Ok"
        ELSE ibt_walk(hdr, 2, root_level - 1)

\* An inode B-tree is drawn.
DrawInobt ==
    /\ pc = "d_new"
    /\ pc' = "d_drawn"
    /\ d_op' = "inobt"
    /\ \E level \in 0..IbtMaxLevels :
        \E hdr \in IbtHeaders(level, 1) :
            d_in' = [level |-> level, hdr |-> hdr]
    /\ UNCHANGED <<result, d_out>>
    /\ UNCHANGED outsideDecode

\* collect_inobt_records on the drawn tree.
DecodeInobt ==
    /\ pc = "d_drawn"
    /\ d_op = "inobt"
    /\ DecodeReturn([err |-> collect_inobt_records(d_in.level, d_in.hdr)])

\* ------------------------------------------------------------------------
\* Inode chunks (src/src/scan.rs, src/src/orchestrator.rs): the length of
\* the read request of a chunk and the inodes reported from its buffer.
\* Every inode of the buffer parses and the callback returns Continue.  A
\* chunk has 64 inodes in groups of 4; here it has CkGroups groups, and
\* sizes are counted in units of the smallest inode.
\* ------------------------------------------------------------------------

\* Groups of 4 inodes of a chunk (16 in the source).
CkGroups == 2

\* Largest block_log.
CkMaxBlockLog == 4

\* Largest inode_size.
CkMaxInodeSize == 2

\* Inodes that the buffer of a chunk may lack at its end.
CkMaxLack == 1

\* Inodes of a chunk (64 in the source).
InodesPerChunk == 4 * CkGroups

CkSlots == 0..(InodesPerChunk - 1)

\* scan_ag: chunk_blocks = 64 * inode_size / block_size and
\* chunk_byte_len = chunk_blocks * block_size.
chunk_byte_len(inode_size, block_size) ==
    ((InodesPerChunk * inode_size) \div block_size) * block_size

\* XfsInobtRec::is_allocated: bit i of ir_free is clear.
is_allocated(rec, i) == i \notin rec.ir_free

\* Bit i / 4 of ir_holemask is set.
is_hole(rec, i) == (i \div 4) \in rec.ir_holemask

\* The loop of process_inode_chunk from slot i: the slots an InodeFound
\* was emitted for so far, in order.
RECURSIVE chunk_slots(_, _, _, _, _)
chunk_slots(rec, inode_size, buf_len, i, emitted) ==
    IF i = InodesPerChunk THEN emitted
    ELSE IF is_hole(rec, i) \/ ~is_allocated(rec, i)
    THEN chunk_slots(rec, inode_size, buf_len, i + 1, emitted)
    ELSE IF i * inode_size + inode_size > buf_len
    THEN emitted
    ELSE chunk_slots(rec, inode_size, buf_len, i + 1, Append(emitted, i))

\* process_inode_chunk: the slots reported from a buffer of buf_len.
process_inode_chunk(rec, inode_size, buf_len) ==
    chunk_slots(rec, inode_size, buf_len, 0, <<>>)

\* The chunk of one record as a scan handles it: the request is built, the
\* reader hands back a buffer that lacks `lack` bytes of it, and the
\* orchestrator passes over a chunk whose buffer is not whole.
ScanChunk(sweep, rec, inode_size, block_size, lack) ==
    LET req_len == chunk_byte_len(inode_size, block_size)
        buf_len == saturating_sub(req_len, lack)
    IN  [err |-> "Ok",
         req_len |-> req_len,
         emitted |-> IF sweep = "orchestrator" /\ buf_len < req_len
                     THEN <<>>
                     ELSE process_inode_chunk(rec, inode_size, buf_len)]

\* An inobt record and a geometry are drawn.
DrawChunk ==
    /\ pc = "d_new"
    /\ pc' = "d_drawn"
    /\ d_op' = "chunk"
    /\ \E sweep \in {"scan", "orchestrator"}, inode_size \in 1..CkMaxInodeSize,
          block_log \in 0..CkMaxBlockLog, lack \in 0..CkMaxLack,
          holemask \in SUBSET (0..(CkGroups - 1)), free \in SUBSET CkSlots :
        /\ inode_size <= Pow2(block_log)
        /\ d_in' = [sweep |-> sweep, inode_size |-> inode_size,
                    block_size |-> Pow2(block_log), lack |-> lack * inode_size,
                    rec |-> [ir_holemask |-> holemask, ir_free |-> free]]
    /\ UNCHANGED <<result, d_out>>
    /\ UNCHANGED outsideDecode

\* The chunk of the drawn record is read and its inodes are reported.
DecodeChunk ==
    /\ pc = "d_drawn"
    /\ d_op = "chunk"
    /\ DecodeReturn(ScanChunk(d_in.sweep, d_in.rec, d_in.inode_size,
                              d_in.block_size, d_in.lack))

\* ------------------------------------------------------------------------
\* The extent count of an inode (src/src/xfs/inode.rs) and the context
\* built from the superblock (src/src/xfs/superblock.rs).  Widths are
\* those of the address arithmetic: a u64 has WordBits bits, a u32 HalfBits.
\* ------------------------------------------------------------------------

\* Bits of the extent count in the 64-bit word at inode offset 24 (48 in
\* the source).
NrextBits == 5

\* parse_inode_core: the data-fork extent count of an inode whose word at
\* offset 24 is `big` and whose di_nextents is `di_nextents`.
nextents_of(has_nrext64, big, di_nextents) ==
    IF has_nrext64
    THEN (big % Pow2(NrextBits)) % Half
    ELSE di_nextents

\* parse_inode_core, as far as the extent count goes.
parse_inode_core(magic_ok, has_nrext64, big, di_nextents) ==
    IF ~magic_ok THEN [err |-> "BadMagic", nextents |-> 0]
    ELSE [err |-> "Ok", nextents |-> nextents_of(has_nrext64, big, di_nextents)]

\* An inode core is drawn.
DrawInodeCore ==
    /\ pc = "d_new"
    /\ pc' = "d_drawn"
    /\ d_op' = "inode"
    /\ \E magic_ok \in BOOLEAN, has_nrext64 \in BOOLEAN,
          big \in 0..(Word - 1), di_nextents \in 0..(Half - 1) :
        d_in' = [magic_ok |-> magic_ok, has_nrext64 |-> has_nrext64,
                 big |-> big, di_nextents |-> di_nextents]
    /\ UNCHANGED <<result, d_out>>
    /\ UNCHANGED outsideDecode

\* parse_inode_core on the drawn inode.
DecodeInodeCore ==
    /\ pc = "d_drawn"
    /\ d_op = "inode"
    /\ DecodeReturn(parse_inode_core(d_in.magic_ok, d_in.has_nrext64,
                                     d_in.big, d_in.di_nextents))

XFS_SB_MAGIC == 1481003842

\* The superblocks drawn: the fields from_superblock reads, each with
\* values that keep and values that break what a context must satisfy.
Superblocks ==
    [sb_magicnum : {XFS_SB_MAGIC, 0}, sb_versionnum : {4, 5},
     sb_blocksize : {512, 1024}, sb_blocklog : {9, 10},
     sb_inodesize : {64, 128, 256}, sb_sectsize : {512, 3000},
     sb_agblocks : {3, 4, 5}, sb_agblklog : {2, 3},
     sb_features2 : {0, 512}, incompat : {0, 32}]

\* FsContext::from_superblock.
from_superblock(sb) ==
    IF sb.sb_magicnum # XFS_SB_MAGIC
    THEN [err |-> "BadMagic", ctx |-> <<>>]
    ELSE
        LET version      == IF sb.sb_versionnum % 16 >= 5 THEN "V5" ELSE "V4"
            has_ftype_v4 == (sb.sb_features2 \div 512) % 2 = 1
        IN  [err |-> "Ok",
             ctx |-> [version     |-> version,
                      block_size  |-> sb.sb_blocksize,
                      block_log   |-> sb.sb_blocklog,
                      ag_blocks   |-> sb.sb_agblocks,
                      ag_blk_log  |-> sb.sb_agblklog,
                      inode_size  |-> sb.sb_inodesize,
                      sect_size   |-> sb.sb_sectsize,
                      has_ftype   |-> version = "V5" \/ has_ftype_v4,
                      has_nrext64 |-> version = "V5" /\ (sb.incompat \div 32) % 2 = 1]]

\* A superblock is drawn.
DrawSuperblock ==
    /\ pc = "d_new"
    /\ pc' = "d_drawn"
    /\ d_op' = "superblock"
    /\ \E sb \in Superblocks : d_in' = sb
    /\ UNCHANGED <<result, d_out>>
    /\ UNCHANGED outsideDecode

\* from_superblock on the drawn superblock.
DecodeSuperblock ==
    /\ pc = "d_drawn"
    /\ d_op = "superblock"
    /\ DecodeReturn(from_superblock(d_in))

\* ------------------------------------------------------------------------
\* The records and child pointers of one inobt block
\* (src/src/xfs/btree.rs), in bytes.  The buffer of a block is what the
\* reader handed back for a request of block_size bytes: it may be shorter
\* at the end of the device.
\* ------------------------------------------------------------------------

\* size_of::<XfsInobtRec>().
IbRecSize == 16

\* key_size and ptr_size of extract_inobt_children.
IbKeySize == 4

IbPtrSize == 4

\* Largest maxrecs of a block drawn.
IbMaxFit == 2

\* Largest numrecs of a header drawn.
IbMaxRecs == 3

\* 4-byte words that a buffer may lack at its end.
IbMaxLack == 3

\* btree_header_size: XfsBtreeShortBlockV4 and XfsBtreeShortBlockV5.
btree_header_size(version) == IF version = "V4" THEN 16 ELSE 56

\* The loop of parse_inobt_leaf from record i: every record is compared
\* with the end of the buffer before it is read.
RECURSIVE leaf_records(_, _, _, _)
leaf_records(buf_len, hdr_size, numrecs, i) ==
    IF i = numrecs THEN [err |-> "Ok", n |-> i]
    ELSE IF hdr_size + i * IbRecSize + IbRecSize > buf_len
    THEN [err |-> "Parse", n |-> i]
    ELSE leaf_records(buf_len, hdr_size, numrecs, i + 1)

\* parse_inobt_leaf.
parse_inobt_leaf(buf_len, hdr_size, numrecs) ==
    leaf_records(buf_len, hdr_size, numrecs, 0)

\* `&buf[start..]`: the slice exists for start <= buf.len() and the index
\* panics beyond.
SliceFrom(buf_len, start) == start <= buf_len

\* The loop of extract_inobt_children from pointer i: the buffer is sliced
\* from the pointer's offset, and ref_from_prefix fails on a slice shorter
\* than a pointer.
RECURSIVE child_pointers(_, _, _, _)
child_pointers(buf_len, ptr_offset, numrecs, i) ==
    IF i = numrecs THEN [err |-> "Ok", n |-> i]
    ELSE LET start == ptr_offset + i * IbPtrSize IN
         IF ~SliceFrom(buf_len, start)
         THEN [err |-> "Panic", n |-> i]
         ELSE IF saturating_sub(buf_len, start) < IbPtrSize
         THEN [err |-> "Parse", n |-> i]
         ELSE child_pointers(buf_len, ptr_offset, numrecs, i + 1)

\* extract_inobt_children.
extract_inobt_children(buf_len, hdr_size, numrecs, block_size) ==
    LET maxrecs    == (block_size - hdr_size) \div (IbKeySize + IbPtrSize)
        ptr_offset == hdr_size + maxrecs * IbKeySize
    IN  child_pointers(buf_len, ptr_offset, numrecs, 0)

\* One block of the walk with the inobt magic and the expected level:
\* parse_btree_header, then the records of a leaf or the pointers of an
\* interior block.
inobt_block(leaf, version, block_size, buf_len, numrecs) ==
    LET hdr_size == btree_header_size(version) IN
    IF buf_len < hdr_size THEN [err |-> "Parse", n |-> 0]
    ELSE IF leaf THEN parse_inobt_leaf(buf_len, hdr_size, numrecs)
    ELSE extract_inobt_children(buf_len, hdr_size, numrecs, block_size)

\* An inobt block is drawn: its kind, the block size, the bytes that the
\* buffer lacks, and numrecs.
DrawInobtBlock ==
    /\ pc = "d_new"
    /\ pc' = "d_drawn"
    /\ d_op' = "inobt_block"
    /\ \E leaf \in BOOLEAN, version \in {"V4", "V5"}, fit \in 1..IbMaxFit,
          lack \in 0..IbMaxLack, numrecs \in 0..IbMaxRecs :
        LET block_size == btree_header_size(version)
                             + fit * (IF leaf THEN IbRecSize ELSE IbKeySize + IbPtrSize)
        IN  d_in' = [leaf |-> leaf, version |-> version, block_size |-> block_size,
                     buf_len |-> saturating_sub(block_size, 4 * lack),
                     numrecs |-> numrecs]
    /\ UNCHANGED <<result, d_out>>
    /\ UNCHANGED outsideDecode

\* The drawn block is decoded.
DecodeInobtBlock ==
    /\ pc = "d_drawn"
    /\ d_op = "inobt_block"
    /\ DecodeReturn(inobt_block(d_in.leaf, d_in.version, d_in.block_size,
                                d_in.buf_len, d_in.numrecs))

\* ------------------------------------------------------------------------
\* The read ranges of the directory sweep (src/src/orchestrator.rs):
\* coalesce_extents over the extents that phase2_dir_sweep sorted by
\* start_block.
\* ------------------------------------------------------------------------

GAP_FILL_BLOCKS == 4096

\* Longest list of extents drawn.
CoMaxExtents == 3

\* Largest distance between the start blocks of two neighbours that are
\* drawn close to each other.
CoMaxStep == 2

\* Largest block_count of an extent drawn.
CoMaxCount == 2

\* Largest block_log drawn.
CoMaxLog == 1

\* The branch of coalesce_extents that extends the last range by one
\* extent: block_count is set from the end of the extent.
extend_range(last, ino, ext, block_log) ==
    LET new_end == ext.start_block + ext.block_count
    IN  [start_block |-> last.start_block,
         block_count |-> new_end - last.start_block,
         entries |-> Append(last.entries,
             [ino |-> ino,
              buf_offset |-> (ext.start_block - last.start_block) * Pow2(block_log),
              byte_len |-> ext.block_count * Pow2(block_log)])]

\* The branch of coalesce_extents that opens a range with one extent.
new_range(ino, ext, block_log) ==
    [start_block |-> ext.start_block,
     block_count |-> ext.block_count,
     entries |-> <<[ino |-> ino, buf_offset |-> 0,
                    byte_len |-> ext.block_count * Pow2(block_log)]>>]

\* The loop of coalesce_extents from extent i, with the ranges built so far.
RECURSIVE coalesce_from(_, _, _, _)
coalesce_from(extents, block_log, i, ranges) ==
    IF i > Len(extents) THEN ranges
    ELSE LET ino == extents[i].ino
             ext == extents[i].ext
         IN  IF ranges # <<>>
                  /\ saturating_sub(ext.start_block,
                         ranges[Len(ranges)].start_block
                             + ranges[Len(ranges)].block_count) <= GAP_FILL_BLOCKS
             THEN coalesce_from(extents, block_log, i + 1,
                      [ranges EXCEPT ![Len(ranges)] =
                          extend_range(ranges[Len(ranges)], ino, ext, block_log)])
             ELSE coalesce_from(extents, block_log, i + 1,
                      Append(ranges, new_range(ino, ext, block_log)))

\* coalesce_extents.
coalesce_extents(extents, block_log) ==
    coalesce_from(extents, block_log, 1, <<>>)

\* The start blocks that may follow an extent in a list sorted by
\* start_block: close to its start, or beyond its end by more than the gap
\* that is filled, or by exactly that gap.
CoNextStarts(prev) ==
    {prev.start_block + step : step \in 0..CoMaxStep}
        \cup {prev.start_block + prev.block_count + GAP_FILL_BLOCKS + far :
                 far \in 0..1}

\* The lists of n extents that phase2_dir_sweep hands to coalesce_extents:
\* written extents of at least one block, sorted by start_block.  The inode
\* of the i-th extent is i.
RECURSIVE CoLists(_)
CoLists(n) ==
    IF n = 0 THEN {<<>>}
    ELSE IF n = 1
    THEN {<<[ino |-> 1, ext |-> [start_block |-> b, block_count |-> c]]>> :
              b \in 0..CoMaxStep, c \in 1..CoMaxCount}
    ELSE UNION {{Append(xs, [ino |-> n,
                             ext |-> [start_block |-> b, block_count |-> c]]) :
                     b \in CoNextStarts(xs[n - 1].ext), c \in 1..CoMaxCount} :
                 xs \in CoLists(n - 1)}

\* A sorted list of extents and a block_log are drawn.
DrawCoalesce ==
    /\ pc = "d_new"
    /\ pc' = "d_drawn"
    /\ d_op' = "coalesce"
    /\ \E n \in 0..CoMaxExtents, block_log \in 0..CoMaxLog :
        \E xs \in CoLists(n) :
            d_in' = [extents |-> xs, block_log |-> block_log]
    /\ UNCHANGED <<result, d_out>>
    /\ UNCHANGED outsideDecode

\* The drawn list is coalesced.
DecodeCoalesce ==
    /\ pc = "d_drawn"
    /\ d_op = "coalesce"
    /\ DecodeReturn([err |-> "Ok",
                     ranges |-> coalesce_extents(d_in.extents, d_in.block_log)])

\* ------------------------------------------------------------------------
\* Where the inodes of a chunk are read from (src/src/scan.rs) and where
\* FsContext::ino_to_disk_position places them
\* (src/src/xfs/superblock.rs).  Sizes are counted in units of the smallest
\* inode, as for the chunks above; no number of the drawn geometries
\* reaches the width of a u32, so the arithmetic is that of the naturals.
\* ------------------------------------------------------------------------

\* Largest inop_blog drawn.
PlMaxInopBlog == 4

\* Largest inode_log drawn, in units of the smallest inode.
PlMaxInodeLog == 1

\* ag_blk_log of the drawn contexts.
PlAgBlkLog == 5

\* Allocation groups of the drawn contexts.
PlGroups == 2

\* The contexts drawn: the fields of a superblock that agree with each
\* other.
PlContexts ==
    {[inop_blog |-> b, inodes_per_block |-> Pow2(b),
      inode_size |-> Pow2(l), block_log |-> b + l, block_size |-> Pow2(b + l),
      ag_blk_log |-> PlAgBlkLog, ag_blocks |-> Pow2(PlAgBlkLog)] :
        b \in 0..PlMaxInopBlog, l \in 0..PlMaxInodeLog}

\* scan_ag: chunk_ag_block = start_ino / inodes_per_block, and the byte
\* offset of the chunk is ag_block_to_byte(agno, chunk_ag_block).
chunk_byte_offset(ctx, a, start_ino) ==
    (a * ctx.ag_blocks + start_ino \div ctx.inodes_per_block) * Pow2(ctx.block_log)

\* FsContext::ino_to_disk_position: the byte offset of the block of the
\* inode and the offset of the inode within the block.
ino_to_disk_position(ctx, ino) ==
    LET a        == ino \div Pow2(ctx.inop_blog + ctx.ag_blk_log)
        agino    == ino % Pow2(ctx.inop_blog + ctx.ag_blk_log)
        ag_block == agino \div Pow2(ctx.inop_blog)
    IN  <<(a * ctx.ag_blocks + ag_block) * Pow2(ctx.block_log),
          (agino % Pow2(ctx.inop_blog)) * ctx.inode_size>>

\* The inodes that scan_ag decodes from the chunk of a record: for every
\* slot that process_inode_chunk reports, the inode number
\* agino_to_ino(agno, start_agino + i) and the byte offset on the device
\* of the bytes handed to parse_inode_core.
PlacedInodes(ctx, a, rec) ==
    LET buf_len == chunk_byte_len(ctx.inode_size, ctx.block_size)
        slots   == process_inode_chunk(rec, ctx.inode_size, buf_len)
    IN  [k \in DOMAIN slots |->
            [slot |-> slots[k],
             ino  |-> a * Pow2(ctx.inop_blog + ctx.ag_blk_log)
                         + rec.start_ino + slots[k],
             byte |-> chunk_byte_offset(ctx, a, rec.start_ino)
                         + slots[k] * ctx.inode_size]]

\* A context, a group and an inobt record are drawn.  The chunk of the
\* record lies within the group.
DrawPlace ==
    /\ pc = "d_new"
    /\ pc' = "d_drawn"
    /\ d_op' = "place"
    /\ \E ctx \in PlContexts, a \in 0..(PlGroups - 1),
          start_ino \in 0..(2 * InodesPerChunk),
          holemask \in SUBSET (0..(CkGroups - 1)) :
        d_in' = [ctx |-> ctx, agno |-> a,
                 rec |-> [start_ino |-> start_ino, ir_holemask |-> holemask,
                          ir_free |-> {}]]
    /\ UNCHANGED <<result, d_out>>
    /\ UNCHANGED outsideDecode

\* The chunk of the drawn record is read and its inodes are decoded.
DecodePlace ==
    /\ pc = "d_drawn"
    /\ d_op = "place"
    /\ DecodeReturn([err |-> "Ok",
                     inodes |-> PlacedInodes(d_in.ctx, d_in.agno, d_in.rec)])

NextDecode ==
    \/ DrawPlace
    \/ DecodePlace
    \/ DrawCoalesce
    \/ DecodeCoalesce
    \/ DrawInobtBlock
    \/ DecodeInobtBlock
    \/ DrawShortform
    \/ DecodeShortform
    \/ DrawDirBlock
    \/ DecodeDirBlock
    \/ DrawInobt
    \/ DecodeInobt
    \/ DrawChunk
    \/ DecodeChunk
    \/ DrawInodeCore
    \/ DecodeInodeCore
    \/ DrawSuperblock
    \/ DecodeSuperblock

SpecDecode == InitDecode /\ [][NextDecode]_vars

\* The events C22 asks for: ".", "..", then the entries in their order.
SfExpected(d, ino, has_ftype) ==
    << DirEntryEvent(ino, ino, <<46>>, 0),
       DirEntryEvent(ino, d.parent, <<46, 46>>, 0) >>
    \o [k \in 1..d.count |->
            DirEntryEvent(ino, d.entries[k].ino, d.entries[k].name,
                          IF has_ftype THEN d.entries[k].ftype ELSE 0)]

\* C22: for a shortform directory whose header holds (count, i8count,
\* parent) the decoder emits "." with child_ino = d and file_type 0, ".."
\* with child_ino = parent and file_type 0, then one DirEntry for each of
\* the count entries in their order, in the 4-byte and in the 8-byte variant.
C22_ShortformSequence ==
    (pc = "d_done" /\ d_op = "shortform" /\ d_in.cut = 0) =>
        /\ d_out.err = "Ok"
        /\ d_out.events = SfExpected(d_in.dir, d_in.ino, d_in.has_ftype)

\* C22: a whole directory of the 8-byte variant with two entries was
\* decoded without an error and one entry was emitted after ".." .
C22_EightByteEntryMissing ==
    /\ pc = "d_done"
    /\ d_op = "shortform"
    /\ d_in.cut = 0
    /\ d_in.dir.count = 2
    /\ d_in.dir.i8count = 1
    /\ d_out.err = "Ok"
    /\ Len(d_out.events) = 3


\* The used entries of the drawn block, in their order.
DbUsedItems == SelectSeq(d_in.items, LAMBDA it : it.kind = "used")

\* The data region of the drawn block ends where its entries end.
DbRegionEnd ==
    data_hdr_size(d_in.version)
        + Len(DbItemsBytes(d_in.items, 0, d_in.has_ftype)) - 8 * d_in.cut

\* C23: parse_dir_data_block reads no byte of an entry at or beyond the end
\* of the data region (the block's end, or in block format the block's end
\* less the tail and the leaf entries), it emits a DirEntry for used
\* entries only, and every entry it emits lies within the data region from
\* its inode number through its tag, padded to 8 bytes.
C23_EntriesInsideDataRegion ==
    (pc = "d_done" /\ d_op = "dirblock") =>
        /\ d_out.err = "Ok"
        /\ d_in.kind # "other" => d_out.data_end = DbRegionEnd
        /\ d_out.run.hi <= d_out.data_end
        /\ Len(d_out.run.events) <= Len(DbUsedItems)
        /\ \A k \in DOMAIN d_out.run.events :
              /\ d_out.run.events[k].child_ino = DbUsedItems[k].ino
              /\ Len(d_out.run.events[k].name) = DbUsedItems[k].namelen
              /\ d_out.run.spans[k][2] <= d_out.data_end

\* C23 without its last part: reads below the end of the data region and
\* events for used entries only.
C23_ReadsInsideDataRegion ==
    (pc = "d_done" /\ d_op = "dirblock") =>
        /\ d_out.err = "Ok"
        /\ d_out.run.hi <= d_out.data_end
        /\ Len(d_out.run.events) <= Len(DbUsedItems)
        /\ \A k \in DOMAIN d_out.run.events :
              /\ d_out.run.events[k].child_ino = DbUsedItems[k].ino
              /\ Len(d_out.run.events[k].name) = DbUsedItems[k].namelen

\* C23: a block in block format with a leaf entry was decoded, and the
\* entry emitted last ends beyond the data region.
C23_EntryBeyondDataRegion ==
    /\ pc = "d_done"
    /\ d_op = "dirblock"
    /\ d_in.kind = "block"
    /\ d_in.leaves = 1
    /\ d_out.run.events # <<>>
    /\ d_out.run.spans[Len(d_out.run.spans)][2] > d_out.data_end


\* A block of the drawn tree has another bb_level than its depth asks for.
IbtLevelMismatch ==
    \E depth \in DOMAIN d_in.hdr : \E b \in DOMAIN d_in.hdr[depth] :
        d_in.hdr[depth][b] # ExpectedLevel(d_in.level, depth)

\* The same for the blocks above the leaf level of the walk and the root.
IbtUpperLevelMismatch ==
    \E depth \in DOMAIN d_in.hdr : \E b \in DOMAIN d_in.hdr[depth] :
        /\ depth = 1 \/ ExpectedLevel(d_in.level, depth) > 0
        /\ d_in.hdr[depth][b] # ExpectedLevel(d_in.level, depth)

\* C24: a block of the inobt walk, the root, an interior block or a leaf,
\* whose bb_level differs from the level expected at its depth makes
\* collect_inobt_records fail with a Parse error.
C24_LevelMismatchFails ==
    (pc = "d_done" /\ d_op = "inobt" /\ IbtLevelMismatch) => d_out.err = "Parse"

\* C24 for the root and the interior blocks: a mismatch of their level
\* fails the walk.
C24_UpperLevelMismatchFails ==
    (pc = "d_done" /\ d_op = "inobt" /\ IbtUpperLevelMismatch) =>
        d_out.err = "Parse"

\* C24: the walk of a tree of two levels returned its records although a
\* leaf block says it is of level 1.
C24_LeafLevelIgnored ==
    /\ pc = "d_done"
    /\ d_op = "inobt"
    /\ d_in.level = 2
    /\ \E b \in DOMAIN d_in.hdr[2] : d_in.hdr[2][b] = 1
    /\ d_out.err = "Ok"


\* The slots of the drawn record that hold an allocated inode.
CkAllocated ==
    {i \in CkSlots : ~is_hole(d_in.rec, i) /\ is_allocated(d_in.rec, i)}

\* C25: for an inobt record and each slot i of its chunk, exactly one
\* InodeFound is emitted if bit i / 4 of the hole mask and bit i of the
\* free bitmap are both clear and none otherwise; no allocated slot is
\* dropped when the scan returns Ok.
C25_EveryAllocatedSlotReported ==
    (pc = "d_done" /\ d_op = "chunk" /\ d_out.err = "Ok") =>
        /\ {d_out.emitted[k] : k \in DOMAIN d_out.emitted} = CkAllocated
        /\ Len(d_out.emitted) = Cardinality(CkAllocated)

\* C25, what holds: no slot is reported twice and none that is a hole or
\* free.
C25_OnlyAllocatedSlotsOnce ==
    (pc = "d_done" /\ d_op = "chunk") =>
        /\ {d_out.emitted[k] : k \in DOMAIN d_out.emitted} \subseteq CkAllocated
        /\ \A j, k \in DOMAIN d_out.emitted : j < k => d_out.emitted[j] < d_out.emitted[k]

\* C25: the buffer of a chunk lacked its last inode, which is allocated;
\* the scan reported the others and returned Ok.
C25_LastSlotDropped ==
    /\ pc = "d_done"
    /\ d_op = "chunk"
    /\ d_in.sweep = "scan"
    /\ d_in.lack > 0
    /\ d_out.req_len = InodesPerChunk * d_in.inode_size
    /\ (InodesPerChunk - 1) \in CkAllocated
    /\ Len(d_out.emitted) = InodesPerChunk - 1
    /\ d_out.err = "Ok"

\* C26: the read request of an inode chunk is 64 * inode_size bytes long
\* for every block size and inode size, block sizes larger than
\* 64 * inode_size included.
C26_ChunkRequestLength ==
    (pc = "d_done" /\ d_op = "chunk") =>
        d_out.req_len = InodesPerChunk * d_in.inode_size

\* C26, what holds: the request has that length when a block is no larger
\* than a chunk.
C26_ChunkRequestLengthOfSmallBlocks ==
    (pc = "d_done" /\ d_op = "chunk"
        /\ d_in.block_size <= InodesPerChunk * d_in.inode_size) =>
        d_out.req_len = InodesPerChunk * d_in.inode_size

\* C26: with a block larger than a chunk the request was empty.
C26_EmptyRequestForLargeBlock ==
    /\ pc = "d_done"
    /\ d_op = "chunk"
    /\ d_in.block_size > InodesPerChunk * d_in.inode_size
    /\ d_out.req_len = 0


\* C27: with has_nrext64 the data-fork extent count that parse_inode_core
\* returns is the low 48 bits of the 64-bit word at inode offset 24, for
\* every value of that field; otherwise it is the 32-bit di_nextents.
C27_ExtentCountOfInode ==
    (pc = "d_done" /\ d_op = "inode" /\ d_out.err = "Ok") =>
        d_out.nextents = IF d_in.has_nrext64
                         THEN d_in.big % Pow2(NrextBits)
                         ELSE d_in.di_nextents

\* C27, what holds: the count is the field where the field fits 32 bits,
\* and the legacy field without nrext64.
C27_ExtentCountBelowHalf ==
    (pc = "d_done" /\ d_op = "inode" /\ d_out.err = "Ok"
        /\ (d_in.has_nrext64 => d_in.big % Pow2(NrextBits) < Half)) =>
        d_out.nextents = IF d_in.has_nrext64
                         THEN d_in.big % Pow2(NrextBits)
                         ELSE d_in.di_nextents

\* C27: an inode with nrext64 whose count field does not fit 32 bits was
\* parsed, and the count returned is another.
C27_CountTruncated ==
    /\ pc = "d_done"
    /\ d_op = "inode"
    /\ d_in.has_nrext64
    /\ d_out.err = "Ok"
    /\ d_in.big % Pow2(NrextBits) >= Half
    /\ d_out.nextents # d_in.big % Pow2(NrextBits)

\* What a context must satisfy.
ContextValid(ctx) ==
    /\ ctx.block_size = Pow2(ctx.block_log)
    /\ ctx.inode_size >= (IF ctx.version = "V5" THEN 176 ELSE 96)
    /\ 4096 % ctx.sect_size = 0
    /\ ctx.ag_blocks <= Pow2(ctx.ag_blk_log)

\* C28: every FsContext that from_superblock returns has
\* block_size = 1 << block_log, inode_size >= 96 (V4) or 176 (V5), a
\* sector size that divides 4096 and ag_blk_log >= ceil(log2(ag_blocks));
\* a superblock that breaks one of these is rejected with an error.
C28_ContextValid ==
    (pc = "d_done" /\ d_op = "superblock" /\ d_out.err = "Ok") =>
        ContextValid(d_out.ctx)

\* C28, what holds: a superblock without the magic gives no context, and
\* a context has the fields of its superblock.
C28_MagicChecked ==
    (pc = "d_done" /\ d_op = "superblock") =>
        /\ d_out.err = "Ok" <=> d_in.sb_magicnum = XFS_SB_MAGIC
        /\ d_out.err = "Ok" =>
              /\ d_out.ctx.block_size = d_in.sb_blocksize
              /\ d_out.ctx.block_log = d_in.sb_blocklog

\* C28: a context was returned whose block size is not 1 << block_log and
\* whose AG blocks do not fit ag_blk_log bits.
C28_InvalidContextReturned ==
    /\ pc = "d_done"
    /\ d_op = "superblock"
    /\ d_out.err = "Ok"
    /\ d_out.ctx.block_size # Pow2(d_out.ctx.block_log)
    /\ d_out.ctx.ag_blocks > Pow2(d_out.ctx.ag_blk_log)


\* C31: every request list handed to coalesced_read_batch, of an inobt
\* level, of the inode chunks, of a bmbt level and of the directory
\* extents, is in non-decreasing order of byte offset, for every image.
C31_RequestsSortedByOffset ==
    (pc = "g_done" /\ g_op \in RequestLists) =>
        \A i, j \in DOMAIN g_out : i < j => g_out[i] <= g_out[j]

\* C31, what holds: the lists of the inobt levels, the inode chunks and
\* the directory extents are in that order, and so is the list of a bmbt
\* level whose blocks have an AG number of 32 bits and lie inside their
\* allocation groups.
C31_SortedButStrayBmbtBlocks ==
    (pc = "g_done" /\ g_op \in RequestLists
        /\ (g_op = "bmbt_level" =>
                \A k \in DOMAIN g_in[2] :
                    /\ Shr(g_in[2][k], g_ctx.ag_blk_log) < Half
                    /\ fsblock_to_ag(g_ctx, g_in[2][k])[2] < g_ctx.ag_blocks)) =>
        \A i, j \in DOMAIN g_out : i < j => g_out[i] <= g_out[j]

\* C31: with 5 blocks in an allocation group and ag_blk_log = 3 the list of
\* a bmbt level had the request of block 7 before that of block 8 and the
\* offsets fell.
C31_BmbtRequestsFall ==
    /\ pc = "g_done"
    /\ g_op = "bmbt_level"
    /\ g_ctx.ag_blocks = 5
    /\ g_ctx.ag_blk_log = 3
    /\ g_in[2] = <<8, 7>>
    /\ g_out[1] > g_out[2]


\* ------------------------------------------------------------------------
\* The walk of the bmap B-trees of an allocation group
\* (src/src/xfs/bmbt.rs, collect_all_bmbt_extents).  The inline roots and
\* the blocks are read off the image when the walk gets to them; a block
\* that is read again has the level it had before.  Every read succeeds.
\* Which inode owns a pending block and the records themselves are left
\* out: the walk is followed by its pending lists and its batches.
\* ------------------------------------------------------------------------

\* Inodes whose bmbt is walked.
BmInodes == 2

\* Blocks of the image that bmbt pointers name.
BmBlocks == 1

\* Largest level in a root or a block header.
BmMaxLevel == 2

\* Records or pointers that fit a fork or a block.
BmFit == 1

\* The model follows a walk for so many batches.
BmBatchCap == BmMaxLevel + 2

BmBlockIds == 1..BmBlocks

\* What a root or a block says: its level, numrecs, and the pointers that
\* lie within the buffer.
BmNodes ==
    [level : 0..BmMaxLevel, numrecs : 0..(BmFit + 1), ptrs : [1..BmFit -> BmBlockIds]]

\* `level as u32 != expected_level` accepts any level.
BmLevelAny(level, expected_level) == TRUE

\* The level check of a block: `level as u32 != expected_level`.
BmLevelOk(level, expected_level) == level = expected_level

\* The records or pointers taken from a node that declares numrecs: the
\* loops leave with `break` at the first one that is not within the buffer.
BmTaken(numrecs) == Min(numrecs, BmFit)

\* The pending blocks that the pointers of a node give.
BmChildren(node, expected_level) ==
    [k \in 1..BmTaken(node.numrecs) |->
        [fsblock |-> node.ptrs[k], expected_level |-> expected_level]]

\* A pending block put into a list that is kept in the order of
\* `sort_unstable_by_key(|p| p.fsblock)`, which every list meets before it is
\* read.
BmPush(s, e) ==
    LET before == {k \in DOMAIN s :
                      \/ s[k].fsblock < e.fsblock
                      \/ /\ s[k].fsblock = e.fsblock
                         /\ s[k].expected_level <= e.expected_level}
        n == Cardinality(before)
    IN SubSeq(s, 1, n) \o <<e>> \o SubSeq(s, n + 1, Len(s))

RECURSIVE BmPushAll(_, _)
BmPushAll(s, es) ==
    IF es = <<>> THEN s ELSE BmPushAll(BmPush(s, Head(es)), Tail(es))

\* The walk reads of a node the pointers that it takes, and no pointer of a
\* leaf; the others are left at one value.
BmReadPart(node) ==
    \A i \in DOMAIN node.ptrs :
        (node.level = 0 \/ i > BmTaken(node.numrecs)) => node.ptrs[i] = 1

\* The sequence without its element k.
BmWithout(s, k) == SubSeq(s, 1, k - 1) \o SubSeq(s, k + 1, Len(s))

InitBmbt ==
    /\ pc = "b_roots"
    /\ Fresh

\* The loop over the inline roots: the root of the next inode is parsed.
BmRoot ==
    /\ pc = "b_roots"
    /\ \E short \in BOOLEAN, root \in BmNodes :
        IF short
        THEN /\ root.level = 0 /\ root.numrecs = 0
             /\ pc' = "b_done"
             /\ result' = "Parse"
             /\ bm_pending' = <<>>
             /\ UNCHANGED <<bm_ino, bm_rootmax, bm_trunc>>
        ELSE /\ BmReadPart(root)
             /\ bm_ino' = bm_ino + 1
             /\ bm_rootmax' = IF root.level > bm_rootmax THEN root.level ELSE bm_rootmax
             /\ bm_trunc' = (bm_trunc \/ root.numrecs > BmFit)
             /\ bm_pending' = IF root.level = 0 THEN bm_pending
                              ELSE BmPushAll(bm_pending, BmChildren(root, root.level - 1))
             /\ pc' = IF bm_ino + 1 = BmInodes THEN "b_loop" ELSE "b_roots"
             /\ UNCHANGED result
    /\ UNCHANGED <<bm_next, bm_batches, bm_again>>
    /\ UNCHANGED outsideBmbt

\* `while !pending.is_empty()`: the walk ends, or the pending blocks are
\* sorted and handed to the reader as one batch.
BmLoop ==
    /\ pc = "b_loop"
    /\ IF bm_pending = <<>>
       THEN /\ pc' = "b_done"
            /\ result' = "Ok"
            /\ UNCHANGED bm_batches
       ELSE /\ bm_batches < BmBatchCap
            /\ pc' = "b_batch"
            /\ bm_batches' = bm_batches + 1
            /\ UNCHANGED result
    /\ UNCHANGED <<bm_ino, bm_rootmax, bm_pending, bm_next, bm_trunc, bm_again>>
    /\ UNCHANGED outsideBmbt

\* The callback of the batch on the next block, a pending one with the
\* lowest block number. An error return drops the lists of the walk.
BmRead ==
    /\ pc = "b_batch"
    /\ bm_pending # <<>>
    /\ \E k \in DOMAIN bm_pending, head \in {"short", "bad_magic", "ok"} :
        LET p == bm_pending[k] IN
        /\ \A j \in DOMAIN bm_pending : p.fsblock <= bm_pending[j].fsblock
        /\ IF head # "ok"
           THEN /\ pc' = "b_done"
                /\ result' = IF head = "short" THEN "Parse" ELSE "BadMagic"
                /\ bm_pending' = <<>>
                /\ bm_next' = <<>>
                /\ UNCHANGED <<bm_trunc, bm_again>>
           ELSE \E level \in 0..BmMaxLevel :
                IF ~BmLevelOk(level, p.expected_level)
                THEN /\ pc' = "b_done"
                     /\ result' = "Parse"
                     /\ bm_pending' = <<>>
                     /\ bm_next' = <<>>
                     /\ UNCHANGED <<bm_trunc, bm_again>>
                ELSE \E node \in BmNodes :
                     /\ node.level = level
                     /\ BmReadPart(node)
                     /\ bm_pending' = BmWithout(bm_pending, k)
                     /\ bm_trunc' = (bm_trunc \/ node.numrecs > BmFit)
                     /\ bm_again' = (bm_again \/ (level > 0 /\
                            \E i \in 1..BmTaken(node.numrecs) : node.ptrs[i] = p.fsblock))
                     /\ bm_next' = IF level = 0 THEN bm_next
                                   ELSE BmPushAll(bm_next,
                                            BmChildren(node, p.expected_level - 1))
                     /\ UNCHANGED <<pc, result>>
    /\ UNCHANGED <<bm_ino, bm_rootmax, bm_batches>>
    /\ UNCHANGED outsideBmbt

\* The batch returned: `pending = next_pending`.
BmBatchEnd ==
    /\ pc = "b_batch"
    /\ bm_pending = <<>>
    /\ pc' = "b_loop"
    /\ bm_pending' = bm_next
    /\ bm_next' = <<>>
    /\ UNCHANGED <<result, bm_ino, bm_rootmax, bm_batches, bm_trunc, bm_again>>
    /\ UNCHANGED outsideBmbt

NextBmbt ==
    \/ BmRoot
    \/ BmLoop
    \/ BmRead
    \/ BmBatchEnd

SpecBmbt == InitBmbt /\ [][NextBmbt]_vars

\* The walk goes on as long as it has a step to take.
SpecBmbtLive == SpecBmbt /\ WF_vars(NextBmbt)

\* C32: collect_all_bmbt_extents terminates on every input, also when the
\* child pointers form a cycle, after at most as many batch reads as the
\* largest level of a root.
C32_BmbtWalkTerminates ==
    <>(pc = "b_done" /\ bm_batches <= bm_rootmax)

\* C32: a walk ended in its second batch with a Parse error after it read a
\* block that names itself as its child.
C32_BlockReadAgain ==
    /\ pc = "b_done"
    /\ bm_again
    /\ result = "Parse"
    /\ bm_batches = 2


\* C33: a bmbt root or block that declares more records or child pointers
\* than fit its fork area or block makes the walk fail with a Parse error;
\* the walk never goes on with a list that was cut short.
C33_OverlongNodeFails ==
    bm_trunc => (pc = "b_done" /\ result = "Parse")

\* C33: the walk returned Ok after a batch although the list of a node that
\* declared more than fits was cut at the end of the buffer.
C33_CutListAccepted ==
    /\ pc = "b_done"
    /\ result = "Ok"
    /\ bm_trunc
    /\ bm_batches > 0


\* The end of the last record or child pointer that numrecs declares in
\* the drawn inobt block.
IbDeclaredEnd ==
    LET hdr_size == btree_header_size(d_in.version) IN
    IF d_in.leaf THEN hdr_size + d_in.numrecs * IbRecSize
    ELSE hdr_size
           + ((d_in.block_size - hdr_size) \div (IbKeySize + IbPtrSize)) * IbKeySize
           + d_in.numrecs * IbPtrSize

\* C34: an inobt block, leaf or interior, whose numrecs places a record or
\* a child pointer beyond the end of the block buffer gives a Parse error,
\* and no index outside the buffer is accessed (no panic).
C34_OverlongInobtBlockFails ==
    (pc = "d_done" /\ d_op = "inobt_block" /\ d_in.numrecs > 0
        /\ IbDeclaredEnd > d_in.buf_len) =>
        d_out.err = "Parse"

\* C34 for leaf blocks, and for interior blocks whose buffer holds the
\* whole block.
C34_LeafOrWholeBlockFails ==
    (pc = "d_done" /\ d_op = "inobt_block" /\ d_in.numrecs > 0
        /\ IbDeclaredEnd > d_in.buf_len
        /\ (d_in.leaf \/ d_in.buf_len = d_in.block_size)) =>
        d_out.err = "Parse"

\* C34: an interior block whose buffer holds the header and ends before the
\* first child pointer was decoded, and the slice index was out of range.
C34_PointerSlicePanics ==
    /\ pc = "d_done"
    /\ d_op = "inobt_block"
    /\ ~d_in.leaf
    /\ d_in.buf_len >= btree_header_size(d_in.version)
    /\ d_in.numrecs > 0
    /\ d_out.err = "Panic"

\* C35: the calls of FsScanner::next_ag hand out the groups 0, 1, ... in
\* ascending order, each at most once and none beyond ag_count - 1; a group
\* whose AGI read or validation failed is used up like the others; a call
\* returns None only after all ag_count groups were handed out.
C35_GroupsOnceAscendingThenNone ==
    pc \in {"idle", "closed"} =>
        /\ \A i \in DOMAIN handed : handed[i] = i - 1
        /\ Len(handed) <= ag_count
        /\ current_ag = Len(handed)
        /\ (op = "next_ag" /\ result = "None") => Len(handed) = ag_count

\* C35: next_ag returned None after it had handed out both groups of an
\* image of two groups.
C35_NoneAfterLastGroup ==
    /\ pc = "idle"
    /\ op = "next_ag"
    /\ result = "None"
    /\ ag_count = 2
    /\ handed = <<0, 1>>

\* scan_file_extents returned Ok and the caller holds the directory phase.
ExtentsPhaseReturnedOk ==
    /\ pc = "idle"
    /\ op = "scan_file_extents"
    /\ result = "Ok"
    /\ phase = "AgDirPhase"

\* The file-extents callback returned Break in the phase that ended last.
ExtentsCallbackBroke ==
    /\ events # <<>>
    /\ events[Len(events)].kind = "FileExtentsInfo"
    /\ events[Len(events)].ret = "Break"

\* C36: when scan_file_extents has returned Ok, every btree-format
\* directory of the group whose bmbt gave at least one extent is queued for
\* scan_dir_entries, whatever the file-extents callback returned.
C36_DirWorkWhateverCallback ==
    ExtentsPhaseReturnedOk => dirs_missed = 0

\* C36 for a callback that returned Continue throughout.
C36_DirWorkUnlessBreak ==
    (ExtentsPhaseReturnedOk /\ ~ExtentsCallbackBroke) => dirs_missed = 0

\* C36: scan_file_extents returned Ok after the callback's Break and left a
\* btree-format directory with extents out of the directory work.
C36_DirectoryLeftOut ==
    /\ ExtentsPhaseReturnedOk
    /\ ExtentsCallbackBroke
    /\ dirs_missed = 1
    /\ dir_work = <<>>

\* The entries of all ranges, in the order of the ranges.
RECURSIVE CoEntries(_)
CoEntries(ranges) ==
    IF ranges = <<>> THEN <<>>
    ELSE ranges[1].entries \o CoEntries(Tail(ranges))

\* Every entry of every range is one extent of the drawn list, at the place
\* of the range where the extent starts, and ends inside the range.
CoEntriesInside ==
    \A r \in DOMAIN d_out.ranges :
        \A k \in DOMAIN d_out.ranges[r].entries :
            LET range == d_out.ranges[r]
                e == range.entries[k]
                ext == d_in.extents[e.ino].ext
            IN  /\ e.buf_offset
                     = (ext.start_block - range.start_block) * Pow2(d_in.block_log)
                /\ e.byte_len = ext.block_count * Pow2(d_in.block_log)
                /\ e.buf_offset + e.byte_len
                     <= range.block_count * Pow2(d_in.block_log)

\* Every extent of the drawn list is the extent of exactly one entry.
CoEachExtentOnce ==
    LET es == CoEntries(d_out.ranges) IN
    /\ Len(es) = Len(d_in.extents)
    /\ \A i \in DOMAIN es : es[i].ino = i

\* No extent of the drawn list ends before an earlier extent of the list.
CoEndsAscend ==
    \A i, j \in DOMAIN d_in.extents :
        i < j => d_in.extents[i].ext.start_block + d_in.extents[i].ext.block_count
                   <= d_in.extents[j].ext.start_block + d_in.extents[j].ext.block_count

\* C37: for every list of extents sorted by start block, each extent is in
\* exactly one entry of the ranges of coalesce_extents and lies wholly
\* inside its range: buf_offset + byte_len <= range.block_count << block_log.
C37_ExtentsInsideTheirRange ==
    (pc = "d_done" /\ d_op = "coalesce") =>
        (CoEachExtentOnce /\ CoEntriesInside)

\* C37 for the lists in which no extent ends before an earlier one; every
\* extent is in exactly one entry for every list.
C37_InsideWhenEndsAscend ==
    (pc = "d_done" /\ d_op = "coalesce") =>
        (CoEachExtentOnce /\ (CoEndsAscend => CoEntriesInside))

\* C37: an extent that starts inside the range and ends before the end of
\* the range was merged, and the range ends before its first extent does.
C37_MergeShrankRange ==
    /\ pc = "d_done"
    /\ d_op = "coalesce"
    /\ Len(d_in.extents) = 2
    /\ Len(d_out.ranges) = 1
    /\ d_out.ranges[1].entries[1].byte_len
          > d_out.ranges[1].block_count * Pow2(d_in.block_log)

\* The buffer of the drawn shortform directory ends inside one of the entries
\* that the header counts.
SfEntryCutOff ==
    /\ d_in.cut > 0
    /\ d_in.dir.count > 0

\* C38: parse_shortform_dir never indexes outside the fork buffer: for every
\* fork buffer in which an entry's name, file-type byte or inode number
\* extends past the end of the buffer it returns a Parse error.
C38_CutEntryGivesParse ==
    (pc = "d_done" /\ d_op = "shortform" /\ SfEntryCutOff) =>
        d_out.err = "Parse"

\* C38 without ftype: no index is out of range, whatever the buffer lacks.
C38_NoPanicWithoutFtype ==
    (pc = "d_done" /\ d_op = "shortform" /\ ~d_in.has_ftype) =>
        d_out.err # "Panic"

\* C38: on a filesystem with ftype a directory of the 4-byte variant was
\* decoded whose buffer ends with the name of its last entry, and the read
\* of the file-type byte was out of range.
C38_FtypeReadPastEnd ==
    /\ pc = "d_done"
    /\ d_op = "shortform"
    /\ d_in.has_ftype
    /\ d_in.dir.i8count = 0
    /\ d_in.dir.count = 1
    /\ d_in.cut = 5
    /\ Len(d_in.fork_buf) = 6 + 3 + Len(d_in.dir.entries[1].name)
    /\ d_out.err = "Panic"

\* Every inode decoded from the drawn record was read at the place that
\* ino_to_disk_position gives for its number.
PlEveryInodeInPlace ==
    \A k \in DOMAIN d_out.inodes :
        LET pos == ino_to_disk_position(d_in.ctx, d_out.inodes[k].ino)
        IN  d_out.inodes[k].byte = pos[1] + pos[2]

\* C39: for every inobt record and every live slot i, the bytes decoded as
\* inode agino_to_ino(agno, start_ino + i) are the bytes at
\* ino_to_disk_position of that inode, for every inodes_per_block, more than
\* a chunk's inodes per block included.
C39_InodesReadInPlace ==
    (pc = "d_done" /\ d_op = "place") => PlEveryInodeInPlace

\* C39 for the records whose start_ino is the first inode of a block.
C39_BlockAlignedReadInPlace ==
    (pc = "d_done" /\ d_op = "place"
        /\ d_in.rec.start_ino % d_in.ctx.inodes_per_block = 0) =>
        PlEveryInodeInPlace

\* C39: a record whose start_ino is not the first inode of its block was
\* decoded, and its first inode was read from the start of the block.
C39_ReadFromBlockStart ==
    /\ pc = "d_done"
    /\ d_op = "place"
    /\ d_in.rec.start_ino % d_in.ctx.inodes_per_block # 0
    /\ d_out.inodes # <<>>
    /\ d_out.inodes[1].slot = 0
    /\ ino_to_disk_position(d_in.ctx, d_out.inodes[1].ino)[2] > 0
    /\ d_out.inodes[1].byte
          = ino_to_disk_position(d_in.ctx, d_out.inodes[1].ino)[1]


\* ------------------------------------------------------------------------
\* The scan along the directory tree (src/src/tree_scan.rs): run_tree_scan
\* reads the directories level by level from the root.  An image is a
\* finite set of inodes; what an inode holds is drawn when the scan first
\* reads it and is the same at every later read.  The blocks of the drawn
\* directories parse.
\* ------------------------------------------------------------------------

XFS_DIR3_FT_DIR == 2

\* Inodes of an image; the root is inode 1.
BfInos == 2

\* Named entries of all directories of an image together.
BfMaxEntries == 2

\* Longest list of directories queued for a level or for the sweep.
BfMaxQueue == 3

\* The file types of named entries: unknown, regular file, directory.
BfFileTypes == {0, 1, XFS_DIR3_FT_DIR}

BfEntrySet == [child_ino : 1..BfInos, file_type : BfFileTypes]

BfKey(e) == e.child_ino * 3 + e.file_type

\* The named entries of a directory, at most n of them, in one order.
BfEntryLists(n) ==
    {es \in UNION {[1..k -> BfEntrySet] : k \in 0..n} :
        \A i \in 1..(Len(es) - 1) : BfKey(es[i]) <= BfKey(es[i + 1])}

\* An inode that the scan did not read.
BfUnread == [kind |-> "unread", entries |-> <<>>]

\* The named entries of the inodes read so far.
RECURSIVE BfUsed(_, _)
BfUsed(image, n) ==
    IF n = 0 THEN 0
    ELSE BfUsed(image, n - 1)
            + Len(image[n].entries)

\* What a read of inode ino may find: what an earlier read found, or for
\* the first read a file, an inode that does not parse, or a directory in
\* local format or with directory blocks.
BfContents(image, ino) ==
    IF image[ino] # BfUnread THEN {image[ino]}
    ELSE {[kind |-> k, entries |-> <<>>] : k \in {"file", "bad"}}
            \cup {[kind |-> k, entries |-> es] :
                    k \in {"local", "blocks"},
                    es \in BfEntryLists(BfMaxEntries - BfUsed(image, BfInos))}

\* The DirEntry events of a directory: "." and "..", with file_type 0 from
\* parse_shortform_dir and the type on disk from a directory block, then
\* the named entries.  ".." names the root in every drawn directory.
BfDirEvents(ino, d) ==
    LET dots == IF d.kind = "local" THEN 0 ELSE XFS_DIR3_FT_DIR IN
    <<DirEntryEvent(ino, ino, ".", dots), DirEntryEvent(ino, 1, "..", dots)>>
        \o [i \in DOMAIN d.entries |->
               DirEntryEvent(ino, d.entries[i].child_ino, "a", d.entries[i].file_type)]

\* is_child_directory.
is_child_directory(file_type, name) ==
    IF name = "." \/ name = ".." THEN FALSE
    ELSE file_type = XFS_DIR3_FT_DIR \/ file_type = 0

\* Vec::push on a list of inode numbers that the next level sorts by disk
\* position: the list is kept in ascending order.
BfPush(list, ino) ==
    SelectSeq(list, LAMBDA x : x <= ino) \o <<ino>>
        \o SelectSeq(list, LAMBDA x : x > ino)

\* collect_child_dir.
collect_child_dir(event, child_dirs) ==
    IF is_child_directory(event.file_type, event.name)
    THEN BfPush(child_dirs, event.child_ino)
    ELSE child_dirs

\* The interceptor on every event of a list.
RECURSIVE BfCollect(_, _)
BfCollect(evs, child_dirs) ==
    IF evs = <<>> THEN child_dirs
    ELSE BfCollect(Tail(evs), collect_child_dir(Head(evs), child_dirs))

\* dir_data_sweep under the interceptor, over the directories of dir_work.
RECURSIVE BfSweepAll(_, _, _)
BfSweepAll(image, work, child_dirs) ==
    IF work = <<>> THEN child_dirs
    ELSE BfSweepAll(image, Tail(work),
             BfCollect(BfDirEvents(Head(work), image[Head(work)]), child_dirs))

InitBfs ==
    /\ pc = "f_start"
    /\ Fresh

\* run_tree_scan up to its loop: the superblock is read, and the first
\* level is the root.
BfsStart ==
    /\ pc = "f_start"
    /\ \E sb \in {"Ok", "Io", "BadMagic"} :
        IF sb = "Ok"
        THEN /\ pc' = "f_loop"
             /\ bf_image' = [i \in 1..BfInos |-> BfUnread]
             /\ bf_level' = <<1>>
             /\ UNCHANGED result
        ELSE /\ pc' = "f_done"
             /\ result' = sb
             /\ UNCHANGED <<bf_image, bf_level>>
    /\ UNCHANGED <<bf_next, bf_dir_work, bf_found, bf_twice>>
    /\ UNCHANGED outsideBfs

\* The head of the loop of run_tree_scan: the scan returns when the level
\* is empty and processes the level otherwise.
BfsLoop ==
    /\ pc = "f_loop"
    /\ IF bf_level = <<>>
       THEN /\ pc' = "f_done"
            /\ result' = "Ok"
       ELSE /\ pc' = "f_inodes"
            /\ UNCHANGED result
    /\ UNCHANGED <<bf_image, bf_level, bf_next, bf_dir_work, bf_found, bf_twice>>
    /\ UNCHANGED outsideBfs

\* The callback of phase A of process_bfs_level on one inode of the level:
\* an inode that does not parse ends the scan, an inode that is no
\* directory is passed over, and a directory is reported with InodeFound;
\* its entries are handed on under the interceptor if it is in local
\* format, and it is queued in dir_work otherwise.
BfsInode ==
    /\ pc = "f_inodes"
    /\ bf_level # <<>>
    /\ LET ino == Head(bf_level) IN
       \E d \in BfContents(bf_image, ino) :
        /\ bf_image' = [bf_image EXCEPT ![ino] = d]
        /\ IF d.kind = "bad"
           THEN /\ pc' = "f_done"
                /\ result' = "Parse"
                /\ bf_level' = <<>>
                /\ bf_next' = <<>>
                /\ bf_dir_work' = <<>>
                /\ UNCHANGED <<bf_found, bf_twice>>
           ELSE IF d.kind = "file"
           THEN /\ bf_level' = Tail(bf_level)
                /\ UNCHANGED <<pc, result, bf_next, bf_dir_work, bf_found, bf_twice>>
           ELSE /\ bf_level' = Tail(bf_level)
                /\ bf_found' = bf_found \cup {ino}
                /\ bf_twice' = (bf_twice \/ ino \in bf_found)
                /\ IF d.kind = "local"
                   THEN /\ bf_next' = BfCollect(BfDirEvents(ino, d), bf_next)
                        /\ UNCHANGED bf_dir_work
                   ELSE /\ bf_dir_work' = BfPush(bf_dir_work, ino)
                        /\ UNCHANGED bf_next
                /\ Len(bf_next') <= BfMaxQueue
                /\ Len(bf_dir_work') <= BfMaxQueue
                /\ UNCHANGED <<pc, result>>
    /\ UNCHANGED outsideBfs

\* Phases B and C of process_bfs_level and the end of the loop body: the
\* blocks of the queued directories are swept under the interceptor, and
\* the child directories collected are the next level.
BfsSweep ==
    /\ pc = "f_inodes"
    /\ bf_level = <<>>
    /\ pc' = "f_loop"
    /\ bf_level' = BfSweepAll(bf_image, bf_dir_work, bf_next)
    /\ Len(bf_level') <= BfMaxQueue
    /\ bf_next' = <<>>
    /\ bf_dir_work' = <<>>
    /\ UNCHANGED <<result, bf_image, bf_found, bf_twice>>
    /\ UNCHANGED outsideBfs

NextBfs ==
    \/ BfsStart
    \/ BfsLoop
    \/ BfsInode
    \/ BfsSweep

SpecBfs == InitBfs /\ [][NextBfs]_vars

\* The scan is one thread: it takes its next step.
SpecBfsLive == SpecBfs /\ WF_vars(NextBfs)

\* C40: run_tree_scan terminates on every finite image and emits at most
\* one InodeFound for each directory inode, also when the entries form a
\* cycle or two entries name the same directory.
C40_TreeScanEndsOncePerDirectory ==
    <>(pc = "f_done") /\ [](~bf_twice)

\* C40, what holds: a scan that does not end reports a directory again.
C40_EndsOrReportsAgain ==
    <>(pc = "f_done" \/ bf_twice)

\* C40: the root in local format has one named entry, which names the root
\* as a directory; the root was reported a second time and is the next
\* level once more.
C40_RootReadAgain ==
    /\ pc = "f_loop"
    /\ bf_image[1].kind = "local"
    /\ bf_image[1].entries = <<[child_ino |-> 1, file_type |-> XFS_DIR3_FT_DIR]>>
    /\ bf_twice
    /\ bf_level = <<1>>

=============================================================================
